---- MODULE Spec2Model ----
(***************************************************************************)
(* A model of pintail's site model and build orchestration                 *)
(* (src/pintail/site.py, git.py, mallard.py, search.py).                   *)
(*                                                                         *)
(* Strings are sequences of one-character strings, so that concatenation,  *)
(* startswith/endswith and split are computed the way Python computes      *)
(* them.  Directory, Source and Page objects live in a heap (a sequence of *)
(* Directory records); an object's identity is its index in the heap.      *)
(***************************************************************************)
EXTENDS Integers, Sequences, FiniteSets, TLC

VARIABLES
    world,      \* the input: source tree on disk, git clone contents, config file
    root,       \* Site.root: 0 is None, otherwise the id of a Directory
    heap,       \* the Directory objects constructed by the last real scan
    filter,     \* Site._filter: a sequence of strings
    index,      \* Config._index
    cloned,     \* the clone directories that exist in __pintail__/git
    update,     \* Config._update
    stageDirs,  \* directory paths that exist under __pintail__/stage
    targetDirs, \* directory paths that exist under __pintail__/build
    toolsFiles, \* files that exist under __pintail__/tools
    htmlTransform, \* whether MallardPage._html_transform has been loaded
    effects,    \* log of the side effects of the last operation
    history,    \* the steps run so far by the current Site.build call
    pc,         \* position of the Site.build call in progress ("idle" if none)
    op,         \* the operation performed by the last step
    exc,        \* the exception that ended the last operation ("none" if it returned)
    rootAtWork, \* Site.root as seen by the last operation when it began its own work
    allocs,     \* number of Directory objects constructed so far
    scanExc,    \* how the last scan_site call that got past its guard ended
    translated, \* the translated page files that exist under __pintail__/stage-<lang>
    result,     \* what the last operation returned, when a claim is about it
    calls       \* number of operations performed so far

vars == <<world, root, heap, filter, index, cloned, update, stageDirs, targetDirs,
          toolsFiles, htmlTransform, effects, history, pc, op, exc, rootAtWork,
          allocs, scanExc, translated, result, calls>>

-----------------------------------------------------------------------------
(* Bounds of the model *)

\* Operations performed on one Site
MaxCalls == 3
\* Sections in the config file besides [pintail]
MaxSections == 2
\* Entries passed to Site.set_filter
MaxFilter == 1
\* Elements of a DocBook document
MaxNodes == 4

-----------------------------------------------------------------------------
(* Python strings *)

StartsWith(s, p) == Len(p) <= Len(s) /\ SubSeq(s, 1, Len(p)) = p

EndsWith(s, p) == Len(p) <= Len(s) /\ SubSeq(s, Len(s) - Len(p) + 1, Len(s)) = p

\* s[1:]
Tail1(s) == IF Len(s) = 0 THEN <<>> ELSE SubSeq(s, 2, Len(s))

\* s[1:-1]
Strip1(s) == IF Len(s) <= 2 THEN <<>> ELSE SubSeq(s, 2, Len(s) - 1)

\* s.split('/'): the pieces between slashes, empty pieces included
RECURSIVE SplitAcc(_, _, _)
SplitAcc(s, cur, acc) ==
    IF Len(s) = 0 THEN Append(acc, cur)
    ELSE IF Head(s) = "/" THEN SplitAcc(Tail(s), <<>>, Append(acc, cur))
    ELSE SplitAcc(Tail(s), Append(cur, Head(s)), acc)

SplitSlash(s) == SplitAcc(s, <<>>, <<>>)

RECURSIVE Concat(_)
Concat(ss) == IF Len(ss) = 0 THEN <<>> ELSE Head(ss) \o Concat(Tail(ss))

Range(s) == {s[i] : i \in 1..Len(s)}

NoDup(s) == \A i, j \in 1..Len(s) : i # j => s[i] # s[j]

-----------------------------------------------------------------------------
(* The input of a run: names, files, the config file *)

\* "/"
Sl == <<"/">>

\* Directory names that occur on disk, in os.listdir order
A == <<"a">>
B == <<"b">>
Pindir == <<"_", "_", "p", "i", "n", "t", "a", "i", "l", "_", "_">>
DotGit == <<".", "g", "i", "t">>
NameOrder == <<A, B, Pindir>>

\* Page ids declared by the id attribute of .page files
PidI == <<"i">>
PidX == <<"x">>

\* A .page file: its file name and the id attribute of its root element.
\* wellformed tells whether xmllint and etree.parse accept the file; links
\* are the link elements of the page's info element and sects its sections.
PageFile(f, id) ==
    [file |-> f, id |-> id, wellformed |-> TRUE, links |-> <<>>, sects |-> <<>>, media |-> <<>>]

\* A media file that a page refers to: its name and the languages (LangNone
\* for the untranslated file) in which shutil.copyfile can copy it
Media(name, copies) == [name |-> name, copies |-> copies]

\* A link element: its xref attribute and the number of its child elements
Link(xref, kids) == [xref |-> xref, kids |-> kids]

\* A section element: its id attribute (empty when it has none) and the
\* links of its info element
Sect(id, links) == [id |-> id, links |-> links]

\* A .page file with links and sections, and one that is not well-formed XML
RichPage(f, id, links, sects) == [PageFile(f, id) EXCEPT !.links = links, !.sects = sects]
BrokenPage(f) == [PageFile(f, <<>>) EXCEPT !.wellformed = FALSE]

\* The .page files a directory can hold, in os.listdir order
FileLists ==
    { <<PageFile("f1", PidI)>>,
      <<PageFile("f1", PidI), PageFile("f2", PidX)>>,
      <<PageFile("f1", PidI), PageFile("f2", PidI), PageFile("f3", PidX)>> }

GitFileLists ==
    { <<PageFile("g1", PidX)>>,
      <<PageFile("g1", PidI), PageFile("g2", PidX)>> }

\* The directories below the top directory: prefix-closed sets of name paths
LocalDisks ==
    { {<<>>},
      {<<>>, <<A>>},
      {<<>>, <<A>>, <<A, B>>},
      {<<>>, <<A>>, <<B>>} }

\* The directories of the repository that a git source clones
GitDisk == {<<>>, <<B>>}

RootFileLists ==
    { <<PageFile("f1", PidI)>>,
      <<PageFile("f1", PidI), PageFile("f2", PidX)>> }

\* Strings the code compares with
Master == <<"m", "a", "s", "t", "e", "r">>
StrFalse == <<"f", "a", "l", "s", "e">>

\* A repository URL and the other git options of the sections that set none
RepoR == <<"r">>

\* An option the section does not set (None), and one it sets to a string
Unset == [set |-> FALSE, val |-> <<>>]
Str(val) == [set |-> TRUE, val |-> val]

\* A config section: its name, whether it sets git_repository, its `sources`
\* list, and whether it sets extra_files (to a glob that matches one file of
\* each source) and feed_atom.  docbook: whether it sets docbook, to the name
\* of a file its source holds; search: its search_domain option.
Section(name, git, sources, extra, feed) ==
    [name |-> name, git |-> git, sources |-> sources, extra |-> extra, feed |-> feed,
     repo |-> RepoR, branch |-> <<>>, gitUpdate |-> <<>>,
     docbook |-> FALSE, search |-> Unset]

PathA == Sl \o A \o Sl
PathAB == Sl \o A \o Sl \o B \o Sl
PathBA == Sl \o B \o Sl \o A \o Sl
PathAEmpty == Sl \o A \o Sl \o Sl
SrcName == <<"s">>

SectionChoices ==
    { Section(Sl, FALSE, <<>>, TRUE, TRUE),
      Section(PathA, FALSE, <<>>, TRUE, FALSE),
      Section(PathA, TRUE, <<>>, FALSE, FALSE),
      Section(PathA, FALSE, <<SrcName>>, FALSE, FALSE),
      Section(PathAB, FALSE, <<>>, FALSE, TRUE),
      Section(PathBA, FALSE, <<>>, FALSE, FALSE),
      Section(PathAEmpty, FALSE, <<>>, FALSE, FALSE),
      Section(SrcName, TRUE, <<>>, FALSE, FALSE) }

\* Config files: up to MaxSections sections with distinct names, in file order
Configs ==
    UNION { { c \in [1..n -> SectionChoices] :
                \A i, j \in 1..n : i # j => c[i].name # c[j].name }
            : n \in 0..MaxSections }

\* str.replace('/', '!')
RECURSIVE ReplaceSlash(_)
ReplaceSlash(s) ==
    IF Len(s) = 0 THEN <<>>
    ELSE <<IF Head(s) = "/" THEN "!" ELSE Head(s)>> \o ReplaceSlash(Tail(s))

\* GitSource.repodir: the name of the clone directory in __pintail__/git
Repodir(repo, branch) == ReplaceSlash(repo) \o <<"@", "@">> \o ReplaceSlash(branch)

HasGit(config) == \E i \in 1..Len(config) : config[i].git

\* The clone directories the git sections of a config file name
ConfigRepodirs(config) ==
    { Repodir(config[i].repo, IF config[i].branch = <<>> THEN Master ELSE config[i].branch) :
        i \in {j \in 1..Len(config) : config[j].git} }

\* Site.translation_provider: None, or a TranslationProvider whose
\* translate_page and translate_media succeed for the languages in pages and
\* media; stale holds the translated page files an earlier run left in
\* __pintail__/stage-<lang>
NoTranslation == [present |-> FALSE, pages |-> {}, media |-> {}, stale |-> {}]
Translation(pages, media, stale) ==
    [present |-> TRUE, pages |-> pages, media |-> media, stale |-> stale]

Worlds ==
    { w \in [ localDirs : LocalDisks, rootFiles : RootFileLists, subFiles : FileLists,
              gitFiles : GitFileLists, config : Configs, gitOk : BOOLEAN,
              pullOk : {TRUE}, langsTop : {<<>>}, langsA : {<<>>},
              searchProvider : {TRUE}, translation : {NoTranslation} ] :
        \* the repository's contents and git's outcome only vary where git is used
        ~HasGit(w.config) => w.gitOk /\ w.gitFiles = <<PageFile("g1", PidX)>> }

-----------------------------------------------------------------------------
(* Config (site.py, class Config) *)

\* ConfigParser.sections() restricted to what the model reads
HasSection(w, name) == \E i \in 1..Len(w.config) : w.config[i].name = name

SectionOf(w, name) == w.config[CHOOSE i \in 1..Len(w.config) : w.config[i].name = name]

\* Config.get('git_repository', name) is not None
GetGitRepository(w, name) == HasSection(w, name) /\ SectionOf(w, name).git

\* Config.get('git_repository', name), for a section that sets it
GetRepo(w, name) == SectionOf(w, name).repo

\* Config.get('git_branch', name) or 'master'
GetBranch(w, name) ==
    IF SectionOf(w, name).branch = <<>> THEN Master ELSE SectionOf(w, name).branch

\* Config.get('git_update', name); <<>> stands for None
GetGitUpdate(w, name) == SectionOf(w, name).gitUpdate

\* (Config.get('sources', path) or '').split()
GetSources(w, path) == IF HasSection(w, path) THEN SectionOf(w, path).sources ELSE <<>>

\* Config.get('extra_files', path) is not None
GetExtraFiles(w, path) == HasSection(w, path) /\ SectionOf(w, path).extra

\* Config.get('feed_atom', path) is not None
GetFeedAtom(w, path) == HasSection(w, path) /\ SectionOf(w, path).feed

-----------------------------------------------------------------------------
(* The file system (os.path) *)

\* A location: the tree it is in ("top" is Site.topdir, "git" the clone,
\* "abs" the file system root) and the names leading to it
Loc(tree, comps) == [tree |-> tree, comps |-> comps]

NonEmptyParts(s) == SelectSeq(SplitSlash(s), LAMBDA c : c # <<>>)

\* os.path.join(base, rel): an absolute rel discards base; the file system
\* ignores repeated and trailing slashes
Join(base, rel) ==
    IF StartsWith(rel, Sl) THEN Loc("abs", NonEmptyParts(rel))
    ELSE Loc(base.tree, base.comps \o NonEmptyParts(rel))

\* The directories that exist in a tree.  pin tells whether __pintail__ exists.
DirsOf(w, tree, isCloned, pin) ==
    CASE tree = "top" -> w.localDirs \cup (IF pin THEN {<<Pindir>>} ELSE {})
      [] tree = "git" -> IF isCloned THEN GitDisk ELSE {}
      [] OTHER        -> {<<>>}

\* os.path.isdir
IsDir(w, loc, clones, pin) ==
    loc.comps \in DirsOf(w, loc.tree, loc.tree = "git" /\ loc.repodir \in clones, pin)

\* The names in os.listdir(loc) that are directories, in listing order
ListDirs(w, loc, clones, pin) ==
    SelectSeq(NameOrder,
              LAMBDA n : Append(loc.comps, n)
                             \in DirsOf(w, loc.tree,
                                        loc.tree = "git" /\ loc.repodir \in clones, pin))

\* The .page files in os.listdir(loc), in listing order
ListPageFiles(w, loc) ==
    CASE loc.tree = "top" /\ loc.comps = <<>> -> w.rootFiles
      [] loc.tree = "top" /\ loc.comps \in w.localDirs -> w.subFiles
      [] loc.tree = "git" /\ loc.comps = <<>> -> w.gitFiles
      [] OTHER -> <<>>

\* The directories Site._makedirs(path) leaves in existence below a tree root
Makedirs(existing, comps) == existing \cup {SubSeq(comps, 1, k) : k \in 0..Len(comps)}

-----------------------------------------------------------------------------
(* Directory.scan_directory and the constructors it runs *)

\* The state threaded through a scan: the heap of Directory objects, the
\* file system, the side effects so far, the pending exception, the
\* Directory returned by the last constructor call (ret), the list returned
\* by the last create_pages call (pages), and the locals by_page_id of the
\* running scan_directory and directories of scan_site, with Site.root.
ScanState(h, isCloned, pin, stage, eff) ==
    [heap |-> h, cloned |-> isCloned, pin |-> pin, stageDirs |-> stage,
     effects |-> eff, exc |-> "none", ret |-> 0, pages |-> <<>>, byPageId |-> {},
     root |-> 0, directories |-> <<>>]

\* lang=None
LangNone == "None"

\* Something the program did to the world outside: what, where, and for
\* index_page and the cache documents in which language and with what content
Effect(e, at) == [e |-> e, at |-> at, lang |-> LangNone, doc |-> <<>>, data |-> <<>>]

Raise(st, e) == [st EXCEPT !.exc = e]

\* Directory.__init__ up to the call of scan_directory
DirectoryInit(path, parent) ==
    [path |-> path, parent |-> parent, pages |-> <<>>, subdirs |-> <<>>, sources |-> <<>>,
     search_domains |-> Unset]

\* Source.__init__ and Source.get_source_path
Source(w, path, name) ==
    [kind |-> "local", name |-> name, loc |-> Join(Loc("top", <<>>), Tail1(path))]

\* The location GitSource.get_source_path() names (no git_directory option)
GitLoc(repodir) == [tree |-> "git", comps |-> <<>>, repodir |-> repodir]

\* git clone: Popen and communicate() return whatever git's exit status is;
\* the clone directory exists afterwards when git succeeded
GitClone(w, st, id, name, repodir) ==
    [st EXCEPT !.effects = Append(@, Effect("clone", name)),
               !.pin = TRUE,
               !.cloned = IF w.gitOk THEN @ \cup {repodir} ELSE @,
               !.heap[id].sources =
                   Append(@, [kind |-> "git", name |-> name, loc |-> GitLoc(repodir),
                              repo |-> GetRepo(w, name), branch |-> GetBranch(w, name),
                              repodir |-> repodir])]

\* GitSource.__init__: the clone directory is looked up first; when it
\* exists the constructor reads Site._update, an attribute Site does not
\* have; otherwise it clones.
GitSource(w, st, id, name) ==
    IF Repodir(GetRepo(w, name), GetBranch(w, name)) \in st.cloned
    THEN Raise(st, "AttributeError")
    ELSE GitClone(w, st, id, name, Repodir(GetRepo(w, name), GetBranch(w, name)))

\* The create_sources calls of scan_directory, in order: the plain Source of
\* an on-disk directory, GitSource.create_sources for the path, and
\* GitSource.create_sources for each entry of the `sources` option.
SourceRequests(w, st, path) ==
    (IF IsDir(w, Join(Loc("top", <<>>), Tail1(path)), st.cloned, st.pin)
     THEN <<[kind |-> "local", name |-> path]>> ELSE <<>>)
    \o (IF GetGitRepository(w, path) THEN <<[kind |-> "git", name |-> path]>> ELSE <<>>)
    \o SelectSeq([i \in 1..Len(GetSources(w, path)) |->
                    [kind |-> "git", name |-> GetSources(w, path)[i]]],
                 LAMBDA r : GetGitRepository(w, r.name))

RECURSIVE AddSources(_, _, _, _)
AddSources(w, st, id, reqs) ==
    IF reqs = <<>> \/ st.exc # "none" THEN st
    ELSE IF Head(reqs).kind = "local"
    THEN AddSources(w, [st EXCEPT !.heap[id].sources =
                                      Append(@, Source(w, st.heap[id].path, Head(reqs).name))],
                    id, Tail(reqs))
    ELSE AddSources(w, GitSource(w, st, id, Head(reqs).name), id, Tail(reqs))

\* Site.get_ignore_directory
GetIgnoreDirectory(path) == path = Sl \o Pindir \o Sl \/ path = Sl \o DotGit \o Sl

\* Directory.get_stage_path()
DirStagePath(path) == Join(Loc("stage", <<>>), Tail1(path))

\* A parsed document: the id of its root element, its links and sections,
\* and the language of the file it was parsed from
Tree(id, links, sects) == [id |-> id, links |-> links, sects |-> sects, lang |-> LangNone]

\* MallardPage.__init__: stage the page, parse it, read its id
MallardPage(id, k, f) ==
    [dir |-> id, src |-> k, file |-> f.file, page_id |-> f.id, cls |-> "MallardPage",
     tree |-> Tree(f.id, f.links, f.sects), staged |-> Tree(f.id, f.links, f.sects),
     notlangs |-> {}, langtrees |-> {}, media |-> f.media]

\* config.get('docbook', source.name): the section names a DocBook file that
\* the source holds
GetDocbook(w, name) == HasSection(w, name) /\ SectionOf(w, name).docbook

\* DocBookPage.page_id, and the id of the one section of the document
PidIndex == <<"i", "n", "d", "e", "x">>
PidSect == <<"s", "1">>

\* DocBookPage.create_pages(source): the primary page and its subpages
DocBookPages(w, id, k, name) ==
    IF GetDocbook(w, name)
    THEN << [dir |-> id, src |-> k, file |-> "db", page_id |-> PidIndex, cls |-> "DocBookPage",
             tree |-> Tree(PidIndex, <<>>, <<>>), staged |-> Tree(PidIndex, <<>>, <<>>),
             notlangs |-> {}, langtrees |-> {}, media |-> <<>>],
            [dir |-> id, src |-> k, file |-> "db", page_id |-> PidSect, cls |-> "DocBookSubPage",
             tree |-> Tree(PidSect, <<>>, <<>>), staged |-> Tree(PidSect, <<>>, <<>>),
             notlangs |-> {}, langtrees |-> {}, media |-> <<>>] >>
    ELSE <<>>

\* cls.create_pages(source) for each Page extension, MallardPage before
\* DocBookPage: every page of the source is constructed (and so staged)
\* before its list is returned.  MallardPage.__init__ parses the staged
\* file outside any try block: xmllint writes no staged file for a source
\* that is not well-formed, and etree.parse raises.
CreatePages(w, st, id, k) ==
    LET files == ListPageFiles(w, st.heap[id].sources[k].loc)
        pages == [i \in 1..Len(files) |-> MallardPage(id, k, files[i])]
                 \o DocBookPages(w, id, k, st.heap[id].sources[k].name)
        sp    == DirStagePath(st.heap[id].path)
    IN  IF \E i \in 1..Len(files) : ~files[i].wellformed
        THEN Raise([st EXCEPT !.pin = TRUE,
                              !.stageDirs = IF sp.tree = "stage" THEN Makedirs(@, sp.comps) ELSE @],
                   "OSError")
        ELSE [st EXCEPT !.pages = pages,
                        !.pin = IF pages = <<>> THEN @ ELSE TRUE,
                        !.stageDirs = IF pages # <<>> /\ sp.tree = "stage"
                                      THEN Makedirs(@, sp.comps) ELSE @]

\* page.page_id in by_page_id
PageIdSeenNever(page, byPageId) == FALSE

PageIdSeen(page, byPageId) == page.page_id \in byPageId

\* The by_page_id loop over the pages of one source
RECURSIVE AddPages(_, _, _)
AddPages(st, id, pages) ==
    IF pages = <<>> THEN st
    ELSE IF PageIdSeen(Head(pages), st.byPageId)
    THEN Raise(st, "DuplicatePageException")
    ELSE AddPages([st EXCEPT !.heap[id].pages = Append(@, Head(pages)),
                             !.byPageId = @ \cup {Head(pages).page_id}],
                  id, Tail(pages))

\* for page in cls.create_pages(source): ...
AddCreatedPages(st, id) == AddPages(st, id, st.pages)

\* The page loop of scan_directory from source k on
RECURSIVE ScanPages(_, _, _, _)
ScanPages(w, st, id, k) ==
    IF st.exc # "none" \/ k > Len(st.heap[id].sources) THEN st
    ELSE ScanPages(w, AddCreatedPages(CreatePages(w, st, id, k), id), id, k + 1)

\* by_page_id = {}
ByPageIdInit(st) == IF st.exc # "none" THEN st ELSE [st EXCEPT !.byPageId = {}]

RECURSIVE NewDirectory(_, _, _, _)
RECURSIVE ScanNames(_, _, _, _)
RECURSIVE ScanSubdirs(_, _, _, _)

\* self.subdirs.append(Directory(self.site, subpath, parent=self))
AppendSubdir(sub, id) ==
    IF sub.exc # "none" THEN sub ELSE [sub EXCEPT !.heap[id].subdirs = Append(@, sub.ret)]

\* The subdirectory loop of scan_directory for the names of one source
ScanNames(w, st, id, names) ==
    IF names = <<>> \/ st.exc # "none" THEN st
    ELSE IF GetIgnoreDirectory(st.heap[id].path \o Head(names) \o Sl)
    THEN ScanNames(w, st, id, Tail(names))
    ELSE ScanNames(w, AppendSubdir(NewDirectory(w, st, st.heap[id].path \o Head(names) \o Sl, id),
                                   id),
                   id, Tail(names))

\* The subdirectory loop of scan_directory from source k on; os.listdir
\* raises when the source's directory does not exist
ScanSubdirs(w, st, id, k) ==
    IF st.exc # "none" \/ k > Len(st.heap[id].sources) THEN st
    ELSE IF ~IsDir(w, st.heap[id].sources[k].loc, st.cloned, st.pin)
    THEN Raise(st, "FileNotFoundError")
    ELSE ScanSubdirs(w, ScanNames(w, st, id,
                                  ListDirs(w, st.heap[id].sources[k].loc, st.cloned, st.pin)),
                     id, k + 1)

\* Directory.scan_directory: sources, then subdirectories, then pages
ScanDirectory(w, st, id) ==
    IF Len(st.heap[id].sources) # 0 THEN st
    ELSE ScanPages(w,
                   ByPageIdInit(ScanSubdirs(w,
                                            AddSources(w, st, id,
                                                       SourceRequests(w, st, st.heap[id].path)),
                                            id, 1)),
                   id, 1)

\* Directory(site, path, parent=parent): the new object is st.ret
NewDirectory(w, st, path, parent) ==
    [ScanDirectory(w, [st EXCEPT !.heap = Append(@, DirectoryInit(path, parent))],
                   Len(st.heap) + 1)
     EXCEPT !.ret = Len(st.heap) + 1]

\* Directory.iter_directories, as the sequence of objects it yields
RECURSIVE IterDirectories(_, _)
IterDirectories(h, id) ==
    <<id>> \o Concat([i \in 1..Len(h[id].subdirs) |-> IterDirectories(h, h[id].subdirs[i])])

\* Directory.iter_pages, as the sequence of pages it yields
RECURSIVE IterPages(_, _)
IterPages(h, id) ==
    h[id].pages \o Concat([i \in 1..Len(h[id].subdirs) |-> IterPages(h, h[id].subdirs[i])])

\* Page.site_id
SiteId(h, page) == h[page.dir].path \o page.page_id

-----------------------------------------------------------------------------
(* Site.scan_site *)

\* The Site and the file system it works on, as one record m.  The build
\* steps below are functions from m to m.
Machine ==
    [root |-> root, heap |-> heap, filter |-> filter, index |-> index,
     cloned |-> cloned, update |-> update, stageDirs |-> stageDirs,
     targetDirs |-> targetDirs,
     toolsFiles |-> toolsFiles, htmlTransform |-> htmlTransform,
     effects |-> <<>>, exc |-> "none", rootAtWork |-> -1, allocs |-> allocs,
     scanExc |-> scanExc, translated |-> translated, ret |-> <<>>]

\* Whether __pintail__ exists
PindirExists(m) ==
    m.cloned # {} \/ m.stageDirs # {} \/ m.targetDirs # {} \/ m.toolsFiles # {}

\* directories[path] = directory
DictSet(d, path, id) == [p \in DOMAIN d \cup {path} |-> IF p = path THEN id ELSE d[p]]

\* directories = {'/': root}; for directory in root.iter_directories(): ...
RECURSIVE DictOfAcc(_, _, _)
DictOfAcc(h, ids, d) ==
    IF ids = <<>> THEN d ELSE DictOfAcc(h, Tail(ids), DictSet(d, h[Head(ids)].path, Head(ids)))

DictOf(h, r) == DictOfAcc(h, IterDirectories(h, r), DictSet(<<>>, Sl, r))

\* [d for d in sections() if d.startswith('/') and d.endswith('/')]
ConfigDirs(w) ==
    SelectSeq([i \in 1..Len(w.config) |-> w.config[i].name],
              LAMBDA d : StartsWith(d, Sl) /\ EndsWith(d, Sl))

\* parent.subdirs.append(curdir)
SynthAttachForgotten(st, parent, id) == st

SynthAttach(st, parent, id) == [st EXCEPT !.heap[parent].subdirs = Append(@, id)]

\* curdir = Directory(self, curpath, parent=parent) and its registration
SynthNew(sub, parent, cur) ==
    IF sub.exc # "none" THEN sub
    ELSE [SynthAttach(sub, parent, sub.ret) EXCEPT !.directories = DictSet(@, cur, sub.ret)]

RECURSIVE SynthParts(_, _, _, _, _)

\* parent = directories[curpath], and on to the next part
SynthDescend(w, st, cur, parts) ==
    IF st.exc # "none" THEN st ELSE SynthParts(w, st, st.directories[cur], cur, parts)

\* The inner loop of scan_site over the parts of one config path
SynthParts(w, st, parent, curpath, parts) ==
    IF parts = <<>> THEN st
    ELSE IF curpath \o Head(parts) \o Sl \in DOMAIN st.directories
    THEN SynthDescend(w, st, curpath \o Head(parts) \o Sl, Tail(parts))
    ELSE SynthDescend(w, SynthNew(NewDirectory(w, st, curpath \o Head(parts) \o Sl, parent),
                                  parent, curpath \o Head(parts) \o Sl),
                      curpath \o Head(parts) \o Sl, Tail(parts))

\* The outer loop of scan_site over the config paths
RECURSIVE SynthPaths(_, _, _)
SynthPaths(w, st, paths) ==
    IF paths = <<>> \/ st.exc # "none" THEN st
    ELSE IF Head(paths) \in DOMAIN st.directories THEN SynthPaths(w, st, Tail(paths))
    ELSE SynthPaths(w, SynthParts(w, st, st.directories[Sl], Sl, SplitSlash(Strip1(Head(paths)))),
                    Tail(paths))

\* The stage is removed before anything is scanned
ScanSiteBegin(m) ==
    ScanState(<<>>, m.cloned, PindirExists(m), {},
              IF m.stageDirs # {} THEN Append(m.effects, Effect("rmtree", Sl)) ELSE m.effects)

\* self.root = Directory(self, '/') and the directories dict of its tree
SetRoot(s1) ==
    IF s1.exc # "none" THEN s1
    ELSE [s1 EXCEPT !.root = s1.ret, !.directories = DictOf(s1.heap, s1.ret)]

\* What the scan leaves in the Site and on disk
ScanSiteEnd(m, s2) ==
    [m EXCEPT !.root = s2.root, !.heap = s2.heap, !.cloned = s2.cloned,
              !.stageDirs = s2.stageDirs, !.effects = s2.effects, !.exc = s2.exc,
              !.allocs = @ + Len(s2.heap)]

\* Site.scan_site past its guard: remove the stage, build the root tree,
\* synthesize the config-declared directories
ScanSiteBody(w, m) ==
    ScanSiteEnd(m, SynthPaths(w, SetRoot(NewDirectory(w, ScanSiteBegin(m), Sl, 0)),
                              ConfigDirs(w)))

ScanSiteRescans(w, m) == ScanSiteBody(w, m)

\* Site.scan_site
ScanSite(w, m) == IF m.root # 0 THEN m ELSE ScanSiteBody(w, m)

\* The outcome of a call that scans is remembered
Scanned(m, r) == IF m.root = 0 THEN [r EXCEPT !.scanExc = r.exc] ELSE r

\* A scan_site call
ScanSiteCall(w, m) == Scanned(m, ScanSite(w, m))

-----------------------------------------------------------------------------
(* Site.set_filter and Site.get_filter *)

\* Site.set_filter(dirs); dirs = <<>> also stands for None
RECURSIVE SetFilter(_)
SetFilter(dirs) ==
    IF dirs = <<>> THEN <<>>
    ELSE <<IF ~StartsWith(Head(dirs), Sl) THEN Sl \o Head(dirs) ELSE Head(dirs)>>
         \o SetFilter(Tail(dirs))

\* A loop in which a Directory only matches entries that end with a slash
RECURSIVE DirectoryLoopSubtrees(_, _)
DirectoryLoopSubtrees(fs, path) ==
    IF fs = <<>> THEN FALSE
    ELSE IF EndsWith(Head(fs), Sl) /\ StartsWith(path, Head(fs)) THEN TRUE
    ELSE DirectoryLoopSubtrees(Tail(fs), path)

\* The loop of get_filter for a Directory
RECURSIVE DirectoryLoop(_, _)
DirectoryLoop(fs, path) ==
    IF fs = <<>> THEN FALSE
    ELSE IF EndsWith(Head(fs), Sl)
    THEN (IF StartsWith(path, Head(fs)) THEN TRUE ELSE DirectoryLoop(Tail(fs), path))
    ELSE (IF StartsWith(Head(fs), path) THEN TRUE ELSE DirectoryLoop(Tail(fs), path))

\* The loop of get_filter for a Page
RECURSIVE PageLoop(_, _)
PageLoop(fs, siteId) ==
    IF fs = <<>> THEN FALSE
    ELSE IF EndsWith(Head(fs), Sl)
    THEN (IF StartsWith(siteId, Head(fs)) THEN TRUE ELSE PageLoop(Tail(fs), siteId))
    ELSE (IF siteId = Head(fs) THEN TRUE ELSE PageLoop(Tail(fs), siteId))

\* Site.get_filter(obj) for a Directory with the given path
GetFilterDirectory(fs, path) == IF Len(fs) = 0 THEN TRUE ELSE DirectoryLoop(fs, path)

\* Site.get_filter(obj) for a Page with the given site_id
GetFilterPage(fs, siteId) == IF Len(fs) = 0 THEN TRUE ELSE PageLoop(fs, siteId)

-----------------------------------------------------------------------------
(* Directory.build_html, build_media, build_files, build_feeds *)

\* Directory.get_target_path()
DirTargetPath(path) == Join(Loc("target", <<>>), Tail1(path))

\* A side effect of a build step, in the order in which they happen
Do(m, e, at) == [m EXCEPT !.effects = Append(@, Effect(e, at))]

\* An exception leaves the step
Fail(m, e) == [m EXCEPT !.exc = e]

\* Directory._maketargetdirs(): Site._makedirs(self.get_target_path())
MakeTarget(m, path) ==
    LET t == DirTargetPath(path)
    IN  Do(IF t.tree = "target" THEN [m EXCEPT !.targetDirs = Makedirs(@, t.comps)] ELSE m,
           "maketarget", path)

\* Site._makedirs(self.get_stage_path())
MakeStage(m, path) ==
    LET t == DirStagePath(path)
    IN  Do(IF t.tree = "stage" THEN [m EXCEPT !.stageDirs = Makedirs(@, t.comps)] ELSE m,
           "makestage", path)

\* os.path.exists(Directory.get_target_path())
TargetExists(m, path) ==
    LET t == DirTargetPath(path)
    IN  t.tree # "target" \/ t.comps \in m.targetDirs

\* MallardPage.build_html(): the transform is loaded from the tools directory
\* on first use and kept in a class attribute
PageBuildHtml(m, page) ==
    IF ~m.htmlTransform /\ "pintail-html-mallard-local.xsl" \notin m.toolsFiles
    THEN Fail(m, "OSError")
    ELSE Do([m EXCEPT !.htmlTransform = TRUE], "html", SiteId(m.heap, page))

\* The page loop of Directory.build_html (no translation provider)
RECURSIVE BuildHtmlPages(_, _)
BuildHtmlPages(m, pages) ==
    IF pages = <<>> \/ m.exc # "none" THEN m
    ELSE IF ~GetFilterPage(m.filter, SiteId(m.heap, Head(pages)))
    THEN BuildHtmlPages(m, Tail(pages))
    ELSE BuildHtmlPages(PageBuildHtml(m, Head(pages)), Tail(pages))

\* The copy loop of Directory.build_files: one matching file per source,
\* copied with shutil.copyfile into the target directory
RECURSIVE CopyExtraFiles(_, _, _)
CopyExtraFiles(m, path, sources) ==
    IF sources = <<>> \/ m.exc # "none" THEN m
    ELSE IF ~TargetExists(m, path) THEN Fail(m, "FileNotFoundError")
    ELSE CopyExtraFiles(Do(m, "file", path), path, Tail(sources))

\* TranslationProvider.get_directory_langs(directory); the lists are empty
\* when there is no translation provider
GetDirectoryLangs(w, path) == IF path = PathA THEN w.langsA ELSE w.langsTop

\* A step of build_media for the media file of a directory and a language
MediaEffect(m, e, path, file, lang) ==
    [m EXCEPT !.effects = Append(@, [Effect(e, path \o file.name) EXCEPT !.lang = lang])]

\* A copy whose failure leaves build_media
CopyFileFatal(m, path, file, lang) ==
    IF lang \in file.copies
    THEN MediaEffect(MediaEffect(m, "media", path, file, lang), "copy", path, file, lang)
    ELSE Fail(MediaEffect(m, "media", path, file, lang), "OSError")

\* The copy is logged and tried; a failure of shutil.copyfile is caught and
\* logged as a warning
CopyFile(m, path, file, lang) ==
    MediaEffect(MediaEffect(m, "media", path, file, lang),
                IF lang \in file.copies THEN "copy" ELSE "warn", path, file, lang)

\* One pass of `for lc in langs`: a language whose translate_media returns
\* a false value is skipped, and so is an absolute name in a language
CopyMedia(w, m, path, file, lang) ==
    IF lang = LangNone THEN CopyFile(m, path, file, lang)
    ELSE IF lang \notin w.translation.media \/ StartsWith(file.name, Sl)
    THEN MediaEffect(m, "provider.translate_media", path, file, lang)
    ELSE CopyFile(MediaEffect(m, "provider.translate_media", path, file, lang),
                  path, file, lang)

\* langs = [None] + translation_provider.get_directory_langs(self)
MediaLangs(w, path) ==
    <<LangNone>> \o (IF w.translation.present THEN GetDirectoryLangs(w, path) ELSE <<>>)

RECURSIVE CopyMediaLangs(_, _, _, _, _)
CopyMediaLangs(w, m, path, file, langs) ==
    IF langs = <<>> THEN m
    ELSE CopyMediaLangs(w, CopyMedia(w, m, path, file, Head(langs)), path, file, Tail(langs))

\* for fname in media: ...
RECURSIVE CopyMediaFiles(_, _, _, _)
CopyMediaFiles(w, m, path, files) ==
    IF files = <<>> THEN m
    ELSE CopyMediaFiles(w, CopyMediaLangs(w, m, path, Head(files), MediaLangs(w, path)),
                        path, Tail(files))

\* The keys of a dict are kept in the order of their first insertion
RECURSIVE DictKeys(_, _)
DictKeys(files, acc) ==
    IF files = <<>> THEN acc
    ELSE DictKeys(Tail(files),
                  IF \E k \in 1..Len(acc) : acc[k].name = Head(files).name
                  THEN acc ELSE Append(acc, Head(files)))

\* media[filename] = page.source for the media of the pages that pass the
\* filter (get_media returns a set: the files of one page are taken in the
\* order in which the page lists them)
MediaDict(m, id) ==
    LET ps == SelectSeq(m.heap[id].pages,
                        LAMBDA p : GetFilterPage(m.filter, SiteId(m.heap, p)))
    IN  DictKeys(Concat([i \in 1..Len(ps) |-> ps[i].media]), <<>>)

\* What a Directory does locally, after its subdirectories and its filter check
BuildLocal(w, m, id, kind) ==
    LET path == m.heap[id].path
    IN  CASE kind = "html" ->
               BuildHtmlPages(MakeTarget(m, path), m.heap[id].pages)
          [] kind = "media" ->
               CopyMediaFiles(w, MakeTarget(m, path), path, MediaDict(m, id))
          [] kind = "files" ->
               IF GetExtraFiles(w, path)
               THEN CopyExtraFiles(MakeStage(m, path), path, m.heap[id].sources)
               ELSE MakeStage(m, path)
          [] kind = "feeds" ->
               IF GetFeedAtom(w, path)
               THEN Do([m EXCEPT !.toolsFiles =
                            @ \cup {"pintail-html.xsl", "pintail-atom.xsl", "pintail-atom-local.xsl"}],
                       IF {"pintail.cache", "yelp-xsl"} \subseteq m.toolsFiles /\ TargetExists(m, path)
                       THEN "feed" ELSE "feed-failed", path)
               ELSE m

RECURSIVE BuildDir(_, _, _, _)
RECURSIVE BuildSubdirs(_, _, _, _)

BuildSubdirs(w, m, subdirs, kind) ==
    IF subdirs = <<>> \/ m.exc # "none" THEN m
    ELSE BuildSubdirs(w, BuildDir(w, m, Head(subdirs), kind), Tail(subdirs), kind)

\* if not self.site.get_filter(self): return, then the directory's own work
BuildFiltered(w, m, id, kind) ==
    IF m.exc # "none" THEN m
    ELSE IF ~GetFilterDirectory(m.filter, m.heap[id].path) THEN m
    ELSE BuildLocal(w, m, id, kind)

\* Directory.build_html / build_media / build_files / build_feeds
BuildDirLocalFirst(w, m, id, kind) ==
    BuildSubdirs(w, BuildFiltered(w, m, id, kind), m.heap[id].subdirs, kind)

BuildDir(w, m, id, kind) ==
    BuildFiltered(w, BuildSubdirs(w, m, m.heap[id].subdirs, kind), id, kind)

-----------------------------------------------------------------------------
(* The build steps of Site *)

\* The step's own work starts here: remember what Site.root is
AtWork(m) == [m EXCEPT !.rootAtWork = m.root]

\* self.scan_site() at the head of a build step; the step's own work
\* follows when the scan raised nothing
Gate(w, m) == ScanSiteCall(w, m)

\* Site.get_langs, TranslationProvider.get_site_langs: the languages of the
\* directories in iter_directories order, each once
RECURSIVE SiteLangs(_, _, _)
SiteLangs(w, paths, acc) ==
    IF paths = <<>> THEN acc
    ELSE SiteLangs(w, Tail(paths),
                   acc \o SelectSeq(GetDirectoryLangs(w, Head(paths)),
                                    LAMBDA l : \A i \in 1..Len(acc) : acc[i] # l))

GetLangs(w, h, r) ==
    LET ids == IterDirectories(h, r)
    IN  SiteLangs(w, [i \in 1..Len(ids) |-> h[ids[i]].path], <<>>)

\* page.get_cache_data(lang) is not None: MallardPage and DocBookPage
\* return an element, DocBookSubPage inherits Page.get_cache_data
HasCacheData(page) == page.cls \in {"MallardPage", "DocBookPage"}

\* The page at position i of the pages of Directory d
PageAt(m, d, i) == m.heap[d].pages[i]

\* Directory.iter_pages, as the positions <<d, i>> of the pages it yields
RECURSIVE IterPageRefs(_, _)
IterPageRefs(h, id) ==
    [i \in 1..Len(h[id].pages) |-> <<id, i>>]
    \o Concat([k \in 1..Len(h[id].subdirs) |-> IterPageRefs(h, h[id].subdirs[k])])

\* Page.get_stage_path(lang): the translated file of a page
TranslatedFile(h, page, lang) == <<h[page.dir].path, page.file, lang>>

\* An operation of a page is entered
Enter(m, e, page, lang) ==
    [m EXCEPT !.effects = Append(@, [Effect(e, SiteId(m.heap, page)) EXCEPT !.lang = lang])]

\* translate_page(page, lang) of the site's TranslationProvider: where it
\* has a translation it writes the translated file and returns True
ProviderTranslatePage(w, m, page, lang) ==
    [Enter(m, "provider.translate_page", page, lang)
     EXCEPT !.translated = IF lang \in w.translation.pages
                           THEN @ \cup {TranslatedFile(m.heap, page, lang)} ELSE @,
            !.ret = <<lang \in w.translation.pages>>]

\* Site.translate_page: the existing file is looked for only when the page
\* does not pass the filter
TranslatePage(w, m, page, lang) ==
    IF ~w.translation.present THEN [m EXCEPT !.ret = <<FALSE>>]
    ELSE IF /\ ~GetFilterPage(m.filter, SiteId(m.heap, page))
            /\ TranslatedFile(m.heap, page, lang) \in m.translated
    THEN [m EXCEPT !.ret = <<TRUE>>]
    ELSE ProviderTranslatePage(w, m, page, lang)

\* An end of _get_tree that parses the translated file whatever
\* translate_page returned
GetTreeEndParsed(t, d, i, lang) ==
    [t EXCEPT !.ret = <<[PageAt(t, d, i).staged EXCEPT !.lang = lang]>>]

\* The end of _get_tree, t being the Site after site.translate_page: the
\* translated file is parsed, or the language is added to _notlangs and
\* self._tree returned.  Only DocBookPage stores the parsed translation in
\* _langtrees.
GetTreeEnd(t, d, i, lang) ==
    IF t.ret = <<TRUE>>
    THEN [t EXCEPT !.ret = <<[PageAt(t, d, i).staged EXCEPT !.lang = lang]>>,
                   !.heap[d].pages[i].langtrees =
                       IF PageAt(t, d, i).cls = "DocBookPage" THEN @ \cup {lang} ELSE @]
    ELSE [t EXCEPT !.ret = <<PageAt(t, d, i).tree>>,
                   !.heap[d].pages[i].notlangs = @ \cup {lang}]

\* MallardPage._get_tree, DocBookPage._get_tree: the tree is left in ret
GetTree(w, m, d, i, lang) ==
    IF lang = LangNone \/ lang \in PageAt(m, d, i).notlangs
    THEN [m EXCEPT !.ret = <<PageAt(m, d, i).tree>>]
    ELSE IF lang \in PageAt(m, d, i).langtrees
    THEN [m EXCEPT !.ret = <<[PageAt(m, d, i).staged EXCEPT !.lang = lang]>>]
    ELSE GetTreeEnd(TranslatePage(w, m, PageAt(m, d, i), lang), d, i, lang)

\* xref is None or xref.startswith('/')
KeptLink(link) == ~link.xref.set \/ StartsWith(link.xref.val, Sl)

\* Every link deep-copied as it is
CacheLinkCopied(path, link) == link

\* The link that _get_node_cache appends to the info element of the
\* fragment: a deep copy, or a new link with directory.path before the xref
\* that has received the children of the link
CacheLink(path, link) ==
    IF KeptLink(link) THEN link ELSE Link(Str(path \o link.xref.val), link.kids)

\* What _get_node_cache leaves of the link in the tree it reads:
\* link.append(linkchild) moves each child element out of the parsed tree
LinkAfter(link) == IF KeptLink(link) THEN link ELSE Link(link.xref, 0)

CacheLinks(path, links) == [k \in 1..Len(links) |-> CacheLink(path, links[k])]

LinksAfter(links) == [k \in 1..Len(links) |-> LinkAfter(links[k])]

\* _get_node_cache(section): a section with an id gets site_id#id
CacheSect(siteId, path, sect) ==
    Sect(IF sect.id = <<>> THEN <<>> ELSE siteId \o <<"#">> \o sect.id,
         CacheLinks(path, sect.links))

\* _get_node_cache(self._get_tree(lang).getroot()) and the cache:href
\* attribute: the fragment of a Mallard page
NodeCache(siteId, path, tree, lang) ==
    [id |-> siteId, dir |-> path, links |-> CacheLinks(path, tree.links),
     sects |-> [k \in 1..Len(tree.sects) |-> CacheSect(siteId, path, tree.sects[k])],
     lang |-> tree.lang, href |-> lang]

\* The tree that _get_node_cache has read
TreeAfter(tree) ==
    [tree EXCEPT !.links = LinksAfter(@),
                 !.sects = [k \in 1..Len(@) |-> Sect(@[k].id, LinksAfter(@[k].links))]]

\* MallardPage.get_cache_data past _get_tree, which left the tree in ret;
\* a translated tree is parsed anew by each _get_tree call, self._tree is
\* the object the page keeps
MallardCacheData(t, d, i, lang) ==
    [t EXCEPT !.ret = <<NodeCache(SiteId(t.heap, PageAt(t, d, i)), t.heap[d].path,
                                  t.ret[1], lang)>>,
              !.heap[d].pages[i].tree = IF t.ret[1].lang = LangNone THEN TreeAfter(@) ELSE @]

\* DocBookPage.get_cache_data past _get_tree: a pintail:external element
\* with the id directory.path + 'index'
DocBookCacheData(t, d, i, lang) ==
    [t EXCEPT !.ret = <<[id |-> t.heap[d].path \o PidIndex, dir |-> t.heap[d].path,
                         links |-> <<>>, sects |-> <<>>, lang |-> t.ret[1].lang,
                         href |-> LangNone]>>]

\* page.get_cache_data(lang): the fragment, or nothing for None, is left
\* in ret
GetCacheData(w, m, d, i, lang) ==
    CASE PageAt(m, d, i).cls = "MallardPage" ->
             MallardCacheData(GetTree(w, m, d, i, lang), d, i, lang)
      [] PageAt(m, d, i).cls = "DocBookPage" ->
             DocBookCacheData(GetTree(w, m, d, i, lang), d, i, lang)
      [] OTHER -> [m EXCEPT !.ret = <<>>]

\* for page in self.root.iter_pages(): cdata = page.get_cache_data(lang);
\* if cdata is not None: cache.append(cdata).  The fragments are left in ret.
RECURSIVE CacheData(_, _, _, _, _)
RECURSIVE CacheDataAppend(_, _, _, _, _)
CacheData(w, m, refs, lang, acc) ==
    IF refs = <<>> THEN [m EXCEPT !.ret = acc]
    ELSE CacheDataAppend(w, GetCacheData(w, m, Head(refs)[1], Head(refs)[2], lang),
                         Tail(refs), lang, acc)

CacheDataAppend(w, t, refs, lang, acc) == CacheData(w, t, refs, lang, acc \o t.ret)

\* The fragments appended to one cache element, by their id attribute
CacheDoc(h, r) ==
    LET ps == SelectSeq(IterPages(h, r), HasCacheData)
    IN  [i \in 1..Len(ps) |-> SiteId(h, ps[i])]

\* Site.get_cache_path(lang)
CachePath(lang) ==
    CASE lang = LangNone -> "pintail.cache"
      [] lang = "de" -> "pintail-de.cache"
      [] lang = "fr" -> "pintail-fr.cache"

\* A cache document of the pages that pass the filter only
CacheEffectFiltered(m, lang) ==
    LET ps == SelectSeq(IterPages(m.heap, m.root),
                        LAMBDA p : HasCacheData(p) /\ GetFilterPage(m.filter, SiteId(m.heap, p)))
    IN  [m EXCEPT !.toolsFiles = @ \cup {CachePath(lang)},
                  !.effects = Append(@, [Effect("cache", Sl) EXCEPT
                                            !.lang = lang,
                                            !.doc = [i \in 1..Len(ps) |-> SiteId(m.heap, ps[i])],
                                            !.data = m.ret]),
                  !.ret = <<>>]

\* One cache document is written: doc holds the ids of the fragments that
\* were appended to it and data the fragments, which m brings in ret
CacheEffect(m, lang) ==
    [m EXCEPT !.toolsFiles = @ \cup {CachePath(lang)},
              !.effects = Append(@, [Effect("cache", Sl) EXCEPT
                                        !.lang = lang, !.doc = CacheDoc(m.heap, m.root),
                                        !.data = m.ret]),
              !.ret = <<>>]

\* for lang in self.get_langs(): ...
RECURSIVE WriteCaches(_, _, _)
WriteCaches(w, m, langs) ==
    IF langs = <<>> THEN m
    ELSE WriteCaches(w, CacheEffect(CacheData(w, m, IterPageRefs(m.heap, m.root),
                                              Head(langs), <<>>),
                                    Head(langs)),
                     Tail(langs))

\* The work of build_cache: the cache document of the source language, then
\* one for each language of the site
WriteCache(w, g) ==
    IF g.exc # "none" THEN g
    ELSE WriteCaches(w, AtWork(g), <<LangNone>> \o GetLangs(w, g.heap, g.root))

\* Site.build_cache
BuildCache(w, m) == WriteCache(w, Gate(w, m))

\* Site.build_tools, with MallardTools.build_tools as the ToolsProvider
BuildTools(w, m) ==
    Do([AtWork(m) EXCEPT !.toolsFiles = @ \cup {"yelp-xsl", "pintail-html.xsl",
                                                "pintail-html-mallard-local.xsl",
                                                "pintail-html-mallard.xsl"}], "tools", Sl)

\* self.root.build_html() and its like
BuildRoot(w, g, kind) ==
    IF g.exc # "none" THEN g ELSE BuildDir(w, AtWork(g), g.root, kind)

\* Site.build_html
BuildHtml(w, m) == BuildRoot(w, Gate(w, m), "html")

\* Site.build_media
BuildMedia(w, m) == BuildRoot(w, Gate(w, m), "media")

\* Site.build_files
BuildFiles(w, m) == BuildRoot(w, Gate(w, m), "files")

\* Site.build_feeds
BuildFeeds(w, m) == BuildRoot(w, Gate(w, m), "feeds")

-----------------------------------------------------------------------------
(* Search domains and the search index (site.py, search.py) *)

StrSelf == <<"s", "e", "l", "f">>
StrGlobal == <<"g", "l", "o", "b", "a", "l">>
StrNone == <<"n", "o", "n", "e">>
StrParent == <<"p", "a", "r", "e", "n", "t">>

\* str.split(): the words between runs of spaces
RECURSIVE SplitWords(_, _, _)
SplitWords(s, cur, acc) ==
    IF s = <<>> THEN (IF cur = <<>> THEN acc ELSE Append(acc, cur))
    ELSE IF Head(s) = " "
    THEN SplitWords(Tail(s), <<>>, IF cur = <<>> THEN acc ELSE Append(acc, cur))
    ELSE SplitWords(Tail(s), Append(cur, Head(s)), acc)

Split(s) == SplitWords(s, <<>>, <<>>)

\* ':' in domain
HasColon(t) == \E i \in 1..Len(t) : t[i] = ":"

\* domain.split(':', 1): a page mapping [page_id, domain]; without a colon
\* the word is a domain
SplitColon(t) ==
    IF HasColon(t)
    THEN LET c == CHOOSE i \in 1..Len(t) : t[i] = ":" /\ \A j \in 1..(i - 1) : t[j] # ":"
         IN  [map |-> TRUE, page |-> SubSeq(t, 1, c - 1), dom |-> SubSeq(t, c + 1, Len(t))]
    ELSE [map |-> FALSE, page |-> <<>>, dom |-> t]

\* The words with 'self' for a directory that sets no search_domain
DomainWordsDefaultSelf(w, path) ==
    LET cfg == IF HasSection(w, path) THEN SectionOf(w, path).search ELSE Unset
        words == Split(IF cfg.set THEN cfg.val ELSE StrSelf)
    IN  [i \in 1..Len(words) |-> SplitColon(words[i])]

\* config.get('search_domain', self.path), 'parent' when None, split
DomainWords(w, path) ==
    LET cfg == IF HasSection(w, path) THEN SectionOf(w, path).search ELSE Unset
        words == Split(IF cfg.set THEN cfg.val ELSE StrParent)
    IN  [i \in 1..Len(words) |-> SplitColon(words[i])]

\* The branches of _resolve that answer without the parent
ResolvesHere(dom) ==
    \/ (dom # <<>> /\ Head(dom) = "/")
    \/ dom \in {StrSelf, StrGlobal, StrNone}

\* _resolve(domain); parentFirst is self.parent.get_search_domains()[0]
Resolve(dom, path, parent, parentFirst) ==
    IF dom # <<>> /\ Head(dom) = "/" THEN dom
    ELSE IF dom = StrSelf THEN path
    ELSE IF dom = StrGlobal THEN Sl
    ELSE IF dom = StrNone THEN StrNone
    ELSE IF parent = 0 THEN Sl
    ELSE parentFirst

\* The loop over the words, the look at domains[0], and the assignment of
\* self._search_domains.  m is the Site after the calls of _resolve that
\* went to the parent.  list has no method prepend.
ResolveDomains(w, m, id) ==
    IF m.exc # "none" THEN m
    ELSE LET d == m.heap[id]
             words == DomainWords(w, d.path)
             pf == IF d.parent # 0 /\ m.heap[d.parent].search_domains.set
                   THEN m.heap[d.parent].search_domains.val[1].dom ELSE Sl
             domains == [i \in 1..Len(words) |->
                            [words[i] EXCEPT !.dom = Resolve(@, d.path, d.parent, pf)]]
         IN  IF domains = <<>> THEN Fail(m, "IndexError")
             ELSE IF domains[1].map THEN Fail(m, "AttributeError")
             ELSE [m EXCEPT !.heap[id].search_domains = Str(domains)]

\* Directory.get_search_domains: the list is m'.heap[id].search_domains.val.
\* The parent is asked (and computes and keeps its own list) when a word
\* is none of the keywords self, global, none and no path; nothing else in
\* the loop can raise, so the parent's call is made here ahead of the loop.
RECURSIVE DirectoryGetSearchDomains(_, _, _)
DirectoryGetSearchDomains(w, m, id) ==
    IF m.heap[id].search_domains.set THEN m
    ELSE ResolveDomains(w,
            IF /\ m.heap[id].parent # 0
               /\ \E i \in 1..Len(DomainWords(w, m.heap[id].path)) :
                      ~ResolvesHere(DomainWords(w, m.heap[id].path)[i].dom)
            THEN DirectoryGetSearchDomains(w, m, m.heap[id].parent)
            ELSE m,
            id)

\* The loop of Page.get_search_domains
RECURSIVE PageDomainsLoop(_, _, _)
PageDomainsLoop(dms, pid, ret) ==
    IF dms = <<>> THEN ret
    ELSE IF Head(dms).map
    THEN IF Head(dms).page = pid
         THEN IF Head(dms).dom = StrNone THEN <<StrNone>>
              ELSE PageDomainsLoop(Tail(dms), pid, Append(ret, Head(dms).dom))
         ELSE PageDomainsLoop(Tail(dms), pid, ret)
    ELSE PageDomainsLoop(Tail(dms), pid, Append(ret, Head(dms).dom))

\* Page.get_search_domains, given the list of its directory
PageGetSearchDomains(dms, pid) ==
    IF ~dms[1].map /\ dms[1].dom = StrNone THEN <<StrNone>>
    ELSE PageDomainsLoop(dms, pid, <<>>)

\* page.searchable: True in MallardPage, DocBookPage and DocBookSubPage
Searchable(page) == page.cls \in {"MallardPage", "DocBookPage", "DocBookSubPage"}

\* for lc in langs: self.index_page(page, lang=lc)
RECURSIVE IndexLangs(_, _, _)
IndexLangs(m, siteId, langs) ==
    IF langs = <<>> THEN m
    ELSE IndexLangs([m EXCEPT !.effects = Append(@, [Effect("index", siteId) EXCEPT
                                                       !.lang = Head(langs)])],
                    siteId, Tail(langs))

\* index_page for every page, whatever its search domains
IndexPageAlways(m, page, langs) ==
    IF m.exc # "none" THEN m ELSE IndexLangs(m, SiteId(m.heap, page), langs)

\* dms = page.get_search_domains(); if dms[0] == 'none': continue; ...
\* m is the Site after the directory was asked for its list
IndexPage(m, page, langs) ==
    IF m.exc # "none" THEN m
    ELSE LET dms == PageGetSearchDomains(m.heap[page.dir].search_domains.val, page.page_id)
         IN  IF dms = <<>> THEN Fail(m, "IndexError")
             ELSE IF dms[1] = StrNone THEN m
             ELSE IndexLangs(m, SiteId(m.heap, page), langs)

\* The loop over directory.pages in SearchProvider.index_directory
RECURSIVE IndexPages(_, _, _, _)
IndexPages(w, m, pages, langs) ==
    IF m.exc # "none" \/ pages = <<>> THEN m
    ELSE IF ~GetFilterPage(m.filter, SiteId(m.heap, Head(pages)))
    THEN IndexPages(w, m, Tail(pages), langs)
    ELSE IF ~Searchable(Head(pages))
    THEN IndexPages(w, m, Tail(pages), langs)
    ELSE IndexPages(w, IndexPage(DirectoryGetSearchDomains(w, m, Head(pages).dir),
                                 Head(pages), langs),
                    Tail(pages), langs)

\* SearchProvider.index_site: index_directory for each directory
RECURSIVE IndexSite(_, _, _)
IndexSite(w, m, ids) ==
    IF m.exc # "none" \/ ids = <<>> THEN m
    ELSE IF ~GetFilterDirectory(m.filter, m.heap[Head(ids)].path)
    THEN IndexSite(w, m, Tail(ids))
    ELSE IndexSite(w, IndexPages(w, m, m.heap[Head(ids)].pages,
                                 <<LangNone>> \o GetDirectoryLangs(w, m.heap[Head(ids)].path)),
                   Tail(ids))

\* if self.search_provider is not None: self.search_provider.index_site()
IndexRoot(w, g) ==
    IF g.exc # "none" \/ ~w.searchProvider THEN g
    ELSE IndexSite(w, AtWork(g), IterDirectories(g.heap, g.root))

\* Site.build_search
BuildSearch(w, m) == IF m.index THEN IndexRoot(w, Gate(w, m)) ELSE m

\* directory.get_search_domains() on a directory of the site
GetSearchDomainsCall(w, m, id) ==
    DirectoryGetSearchDomains(w, Do(m, "get_search_domains", m.heap[id].path), id)

\* MallardTools.build_css as the CssProvider: the provider parses the cache
\* document
WriteCss(g) ==
    IF g.exc # "none" THEN g
    ELSE IF "pintail.cache" \notin g.toolsFiles
    THEN Fail([AtWork(g) EXCEPT !.toolsFiles = @ \cup {"pintail-css-mallard.xsl"}], "OSError")
    ELSE Do([AtWork(g) EXCEPT !.toolsFiles = @ \cup {"pintail-css-mallard.xsl"}], "css", Sl)

\* Site.build_css
BuildCss(w, m) == WriteCss(Gate(w, m))

\* The work of build_js: the scripts of yelp-xsl are copied with
\* shutil.copyfile into the target directory
WriteJs(g) ==
    IF g.exc # "none" THEN g
    ELSE IF "yelp-xsl" \in g.toolsFiles /\ <<>> \notin g.targetDirs
    THEN Fail(AtWork(g), "FileNotFoundError")
    ELSE Do([AtWork(g) EXCEPT !.toolsFiles = @ \cup {"pintail-js.xsl"}],
            IF {"pintail.cache", "yelp-xsl"} \subseteq g.toolsFiles /\ <<>> \in g.targetDirs
            THEN "js" ELSE "js-failed", Sl)

\* Site.build_js
BuildJs(w, m) == WriteJs(Gate(w, m))

StepNames == {"scan_site", "build_cache", "build_tools", "build_html", "build_media",
              "build_files", "build_feeds", "build_search", "build_css", "build_js"}

BuildSteps == StepNames \ {"scan_site"}

\* The method of Site with the given name
Step(w, m, name) ==
    CASE name = "scan_site"    -> ScanSiteCall(w, m)
      [] name = "build_cache"  -> BuildCache(w, m)
      [] name = "build_tools"  -> BuildTools(w, m)
      [] name = "build_html"   -> BuildHtml(w, m)
      [] name = "build_media"  -> BuildMedia(w, m)
      [] name = "build_files"  -> BuildFiles(w, m)
      [] name = "build_feeds"  -> BuildFeeds(w, m)
      [] name = "build_search" -> BuildSearch(w, m)
      [] name = "build_css"    -> BuildCss(w, m)
      [] name = "build_js"     -> BuildJs(w, m)

\* Site.build: the step that follows a step that returned, "idle" after the last
NextInBuildAlwaysCss(name, fs) ==
    CASE name = "scan_site"    -> "build_cache"
      [] name = "build_cache"  -> "build_tools"
      [] name = "build_tools"  -> "build_html"
      [] name = "build_html"   -> "build_media"
      [] name = "build_media"  -> "build_files"
      [] name = "build_files"  -> "build_feeds"
      [] name = "build_feeds"  -> "build_search"
      [] name = "build_search" -> "build_css"
      [] name = "build_css"    -> "build_js"
      [] name = "build_js"     -> "idle"

NextInBuild(name, fs) ==
    CASE name = "scan_site"    -> "build_cache"
      [] name = "build_cache"  -> "build_tools"
      [] name = "build_tools"  -> "build_html"
      [] name = "build_html"   -> "build_media"
      [] name = "build_media"  -> "build_files"
      [] name = "build_files"  -> "build_feeds"
      [] name = "build_feeds"  -> "build_search"
      [] name = "build_search" -> IF Len(fs) = 0 THEN "build_css" ELSE "idle"
      [] name = "build_css"    -> "build_js"
      [] name = "build_js"     -> "idle"

-----------------------------------------------------------------------------
(* The state machine *)

\* Arguments of set_filter: `pintail build` passes the paths of its command line
FilterEntries ==
    << PathA, A \o Sl, PathA \o PidI, Sl \o PidI, PathAB, PathAB \o PidI >>

\* get_filter asks whether some entry matches, whatever the order of the
\* entries and however often one is repeated: the arguments list their
\* entries in one order, each once
FilterArgs ==
    { [i \in 1..Len(c) |-> FilterEntries[c[i]]] :
        c \in { c \in UNION { [1..n -> 1..Len(FilterEntries)] : n \in 0..MaxFilter } :
                  \A i \in 1..(Len(c) - 1) : c[i] < c[i + 1] } }

\* Sites on which whole builds are explored
BuildConfigs ==
    { <<>>,
      <<Section(Sl, FALSE, <<>>, TRUE, TRUE)>>,
      <<Section(PathA, FALSE, <<>>, TRUE, FALSE), Section(PathAB, FALSE, <<>>, FALSE, TRUE)>> }

BuildWorlds ==
    { w \in Worlds :
        /\ w.config \in BuildConfigs
        /\ w.localDirs \in { {<<>>, <<A>>}, {<<>>, <<A>>, <<A, B>>} }
        /\ w.rootFiles = <<PageFile("f1", PidI)>>
        /\ w.subFiles \in { <<PageFile("f1", PidI)>>,
                            <<PageFile("f1", PidI), PageFile("f2", PidI), PageFile("f3", PidX)>> } }

\* Repository URLs and branches of git sections
RepoRS == <<"r", "/", "s">>
RepoRbangS == <<"r", "!", "s">>
GitRepos == {RepoR, RepoRS, RepoRbangS}
GitBranches == {<<>>, <<"b">>}

\* A section with git_repository, git_branch and git_update
GitSection(name, sources, repo, branch, gitUpdate) ==
    [Section(name, TRUE, sources, FALSE, FALSE)
     EXCEPT !.repo = repo, !.branch = branch, !.gitUpdate = gitUpdate]

\* Sites with remote sources: /a/ comes from a repository and may list a
\* second remote source, s
GitConfigs ==
    { <<GitSection(PathA, <<>>, r, b, u)>> :
        r \in GitRepos, b \in GitBranches, u \in {<<>>, StrFalse} }
    \cup
    { <<GitSection(PathA, <<SrcName>>, c[1], c[2], c[3]),
        GitSection(SrcName, <<>>, c[4], c[5], <<>>)>> :
        c \in GitRepos \X GitBranches \X {<<>>, StrFalse} \X GitRepos \X GitBranches }

GitWorlds ==
    [ localDirs : { {<<>>}, {<<>>, <<A>>} },
      rootFiles : { <<PageFile("f1", PidI)>> },
      subFiles : { <<PageFile("f1", PidI)>> },
      gitFiles : { <<PageFile("g1", PidX)>> },
      config : GitConfigs, gitOk : BOOLEAN, pullOk : BOOLEAN,
      langsTop : {<<>>}, langsA : {<<>>}, searchProvider : {TRUE},
      translation : {NoTranslation} ]

\* Values of the search_domain option
SdSelfNone == StrSelf \o <<" ">> \o StrNone
SdMapNone == PidI \o <<":">> \o StrNone
SdSelfMapNone == StrSelf \o <<" ">> \o SdMapNone
SdGlobalPath == StrGlobal \o <<" ", " ">> \o PathBA

\* A section with search_domain and docbook
SearchSection(name, search, docbook) ==
    [Section(name, FALSE, <<>>, FALSE, FALSE) EXCEPT !.search = search, !.docbook = docbook]

\* The options of the sections for /, /a/ and /a/b/, and whether /a/ holds
\* a DocBook document
SearchOptions ==
    { c \in {Unset, Str(StrNone)}
            \X {Unset, Str(StrNone), Str(StrSelf), Str(SdSelfNone), Str(SdSelfMapNone),
                Str(SdMapNone), Str(SdGlobalPath), Str(<<>>)}
            \X {Unset, Str(StrSelf)}
            \X BOOLEAN :
        /\ c[1].set => c[2] \in {Unset, Str(StrSelf)}
        /\ c[3].set => ~c[1].set
        /\ c[4] => ~c[1].set /\ ~c[3].set }

\* Sites with search domains: sections for /, /a/ and /a/b/
SearchConfigs ==
    { <<SearchSection(Sl, c[1], FALSE), SearchSection(PathA, c[2], c[4]),
        SearchSection(PathAB, c[3], FALSE)>> : c \in SearchOptions }

\* The languages of the translation provider and whether there is a search
\* provider
Providers ==
    { [langsTop |-> <<>>, langsA |-> <<>>, searchProvider |-> FALSE,
       translation |-> NoTranslation],
      [langsTop |-> <<"de">>, langsA |-> <<"fr", "de">>, searchProvider |-> TRUE,
       translation |-> Translation({}, {}, {})] }

SearchWorlds ==
    { [localDirs |-> {<<>>, <<A>>, <<A, B>>},
       rootFiles |-> <<PageFile("f1", PidI)>>,
       subFiles |-> <<PageFile("f1", PidI), PageFile("f2", PidX)>>,
       gitFiles |-> <<PageFile("g1", PidX)>>,
       config |-> c, gitOk |-> TRUE, pullOk |-> TRUE,
       langsTop |-> p.langsTop, langsA |-> p.langsA, searchProvider |-> p.searchProvider,
       translation |-> p.translation] :
      c \in SearchConfigs, p \in Providers }

\* The state after Site(config): nothing scanned, no filter, indexing on.
\* Earlier runs may have left a stage and a clone behind.
InitIn(W) ==
    /\ world \in W
    /\ root = 0
    /\ heap = <<>>
    /\ filter = <<>>
    /\ index = TRUE
    /\ cloned \in SUBSET ConfigRepodirs(world.config)
    /\ update = TRUE
    /\ stageDirs \in { {}, {<<>>} }
    /\ targetDirs = {}
    /\ toolsFiles = {}
    /\ htmlTransform = FALSE
    /\ effects = <<>>
    /\ history = <<>>
    /\ pc = "idle"
    /\ op = "init"
    /\ exc = "none"
    /\ rootAtWork = -1
    /\ allocs = 0
    /\ scanExc = "never"
    /\ translated \in SUBSET world.translation.stale
    /\ result = <<>>
    /\ calls = 0

Init == InitIn(BuildWorlds)

InitScan == InitIn(Worlds)

\* The Site after an operation that left it as m
Apply(m, name) ==
    /\ root' = m.root
    /\ heap' = m.heap
    /\ cloned' = m.cloned
    /\ stageDirs' = m.stageDirs
    /\ targetDirs' = m.targetDirs
    /\ toolsFiles' = m.toolsFiles
    /\ htmlTransform' = m.htmlTransform
    /\ effects' = m.effects
    /\ exc' = m.exc
    /\ rootAtWork' = m.rootAtWork
    /\ allocs' = m.allocs
    /\ scanExc' = m.scanExc
    /\ translated' = m.translated
    /\ result' = m.ret
    /\ op' = name

\* A call of one method of Site from outside Site.build
Called(m, name) ==
    /\ pc = "idle"
    /\ calls < MaxCalls
    /\ Apply(m, name)
    /\ calls' = calls + 1
    /\ UNCHANGED <<world, filter, index, update, history, pc>>

CallScanSite == Called(ScanSiteCall(world, Machine), "scan_site")
CallBuildCache == Called(BuildCache(world, Machine), "build_cache")
CallBuildTools == Called(BuildTools(world, Machine), "build_tools")
CallBuildHtml == Called(BuildHtml(world, Machine), "build_html")
CallBuildMedia == Called(BuildMedia(world, Machine), "build_media")
CallBuildFiles == Called(BuildFiles(world, Machine), "build_files")
CallBuildFeeds == Called(BuildFeeds(world, Machine), "build_feeds")
CallBuildSearch == Called(BuildSearch(world, Machine), "build_search")
CallBuildCss == Called(BuildCss(world, Machine), "build_css")
CallBuildJs == Called(BuildJs(world, Machine), "build_js")

\* get_search_domains() is called on a Directory of the scanned site
CallGetSearchDomains ==
    /\ root # 0
    /\ \E id \in Range(IterDirectories(heap, root)) :
           Called(GetSearchDomainsCall(world, Machine, id), "get_search_domains")

\* Site.set_filter(dirs)
SetFilterCalled(args) ==
    /\ pc = "idle"
    /\ calls < MaxCalls
    /\ \E dirs \in args : filter' = SetFilter(dirs)
    /\ op' = "set_filter"
    /\ exc' = "none"
    /\ effects' = <<>>
    /\ rootAtWork' = -1
    /\ calls' = calls + 1
    /\ result' = <<>>
    /\ UNCHANGED <<translated, world, root, heap, index, cloned, update, stageDirs, targetDirs, toolsFiles,
                   htmlTransform, history, pc, allocs, scanExc>>

CallSetFilter == SetFilterCalled(FilterArgs)

\* Config.set_index(False), the --no-search option
CallSetIndex ==
    /\ pc = "idle"
    /\ calls < MaxCalls
    /\ index
    /\ index' = FALSE
    /\ op' = "set_index"
    /\ exc' = "none"
    /\ effects' = <<>>
    /\ rootAtWork' = -1
    /\ calls' = calls + 1
    /\ result' = <<>>
    /\ UNCHANGED <<translated, world, root, heap, filter, cloned, update, stageDirs, targetDirs, toolsFiles,
                   htmlTransform, history, pc, allocs, scanExc>>

\* Config.set_update(update), the --no-update option
CallSetUpdate ==
    /\ pc = "idle"
    /\ calls < MaxCalls
    /\ \E b \in BOOLEAN : update' = b
    /\ op' = "set_update"
    /\ exc' = "none"
    /\ effects' = <<>>
    /\ rootAtWork' = -1
    /\ calls' = calls + 1
    /\ result' = <<>>
    /\ UNCHANGED <<translated, world, root, heap, filter, index, cloned, stageDirs, targetDirs,
                   toolsFiles, htmlTransform, history, pc, allocs, scanExc>>

\* Site.build is entered
CallBuild ==
    /\ pc = "idle"
    /\ calls < MaxCalls
    /\ pc' = "scan_site"
    /\ history' = <<>>
    /\ op' = "build"
    /\ exc' = "none"
    /\ effects' = <<>>
    /\ rootAtWork' = -1
    /\ calls' = calls + 1
    /\ result' = <<>>
    /\ UNCHANGED <<translated, world, root, heap, filter, index, cloned, update, stageDirs, targetDirs,
                   toolsFiles, htmlTransform, allocs, scanExc>>

\* A step of Site.build has left the Site as m; an exception ends the build
Stepped(m) ==
    /\ Apply(m, pc)
    /\ pc' = IF m.exc # "none" THEN "idle" ELSE NextInBuild(pc, filter)

\* Site.build runs its next step
BuildStep ==
    /\ pc # "idle"
    /\ Stepped(Step(world, Machine, pc))
    /\ history' = Append(history, pc)
    /\ UNCHANGED <<world, filter, index, update, calls>>

Next ==
    \/ CallScanSite
    \/ CallBuildCache
    \/ CallBuildTools
    \/ CallBuildHtml
    \/ CallBuildMedia
    \/ CallBuildFiles
    \/ CallBuildFeeds
    \/ CallBuildSearch
    \/ CallBuildCss
    \/ CallBuildJs
    \/ CallSetFilter
    \/ CallSetIndex
    \/ CallBuild
    \/ BuildStep

Spec == Init /\ [][Next]_vars

\* Sites with remote sources, scanned with and without updates
InitGit == InitIn(GitWorlds)

NextGit == CallSetUpdate \/ CallScanSite

GitSpec == InitGit /\ [][NextGit]_vars

\* Sites with search domains, translations and DocBook documents: the cache
\* and the search index are built, under filters, and directories are asked
\* for their search domains
InitSearch == InitIn(SearchWorlds) /\ stageDirs = {}

NextSearch ==
    \/ CallBuildCache
    \/ CallBuildSearch
    \/ CallSetFilter
    \/ CallSetIndex
    \/ CallGetSearchDomains

SearchSpec == InitSearch /\ [][NextSearch]_vars

\* Pages with links and sections, a page that is not well-formed, and
\* translation providers: what /a/ holds
PageFileLists ==
    { <<RichPage("f1", PidI,
                 <<Link(Str(PidX), 1), Link(Str(Sl \o PidI), 1), Link(Unset, 1)>>,
                 <<Sect(PidSect, <<Link(Str(PidX), 0)>>), Sect(<<>>, <<>>)>>),
        [PageFile("f2", PidX) EXCEPT !.media = <<Media(<<"m">>, {"de"}),
                                                 Media(<<"n">>, {LangNone})>>]>>,
      <<PageFile("f1", PidI), BrokenPage("f2")>>,
      <<PageFile("f1", PidI)>> }

Translations ==
    {NoTranslation}
    \cup { Translation(ps, ms, st) :
              ps \in SUBSET {"de"}, ms \in SUBSET {"de"},
              st \in { {}, {<<PathA, "f1", "de">>} } }

PageWorlds ==
    { [localDirs |-> {<<>>, <<A>>},
       rootFiles |-> <<[PageFile("f1", PidI) EXCEPT !.media = <<Media(<<"r">>, {LangNone})>>]>>,
       subFiles |-> fs,
       gitFiles |-> <<PageFile("g1", PidX)>>,
       config |-> <<SearchSection(PathA, Unset, db)>>, gitOk |-> TRUE, pullOk |-> TRUE,
       langsTop |-> <<>>, langsA |-> IF tr.present THEN <<"de">> ELSE <<>>,
       searchProvider |-> FALSE, translation |-> tr] :
      fs \in PageFileLists, db \in BOOLEAN, tr \in Translations }

\* Filters on such sites: none, a directory, a page of the root, a page of /a/
PageFilterArgs == { <<>>, <<PathA>>, <<Sl \o PidI>>, <<PathA \o PidX>> }

CallSetPageFilter == SetFilterCalled(PageFilterArgs)

\* The pages of the scanned site, by their positions, and the languages
\* that callers ask pages for
PageRefs == IF root = 0 THEN {} ELSE Range(IterPageRefs(heap, root))
PageLangs == {"de"}

\* site.translate_page(page, lang) is called
TranslatePageCall(w, m, d, i, lang) ==
    TranslatePage(w, Enter(m, "translate_page", PageAt(m, d, i), lang), PageAt(m, d, i), lang)

CallTranslatePage ==
    \E r \in PageRefs : \E lang \in PageLangs :
        Called(TranslatePageCall(world, Machine, r[1], r[2], lang), "translate_page")

\* page.get_cache_data(lang) is called
GetCacheDataCall(w, m, d, i, lang) ==
    GetCacheData(w, Enter(m, "get_cache_data", PageAt(m, d, i), lang), d, i, lang)

\* page._get_tree(lang) is called, as get_title, get_desc, get_keywords,
\* get_content and build_html do
GetTreeCall(w, m, d, i, lang) ==
    GetTree(w, Enter(m, "_get_tree", PageAt(m, d, i), lang), d, i, lang)

CallGetTree ==
    \E r \in PageRefs : \E lang \in PageLangs :
        /\ PageAt(Machine, r[1], r[2]).cls # "DocBookSubPage"
        /\ Called(GetTreeCall(world, Machine, r[1], r[2], lang), "_get_tree")

CallGetCacheData ==
    \E r \in PageRefs : \E lang \in PageLangs \cup {LangNone} :
        Called(GetCacheDataCall(world, Machine, r[1], r[2], lang), "get_cache_data")

\* Sites with such pages: scanned, cached and translated, under filters
InitPage == InitIn(PageWorlds)

NextPage ==
    \/ CallScanSite
    \/ CallBuildCache
    \/ CallSetPageFilter
    \/ CallTranslatePage
    \/ CallGetCacheData
    \/ CallGetTree
    \/ CallBuildMedia

PageSpec == InitPage /\ [][NextPage]_vars

-----------------------------------------------------------------------------
(* DocBookPage.__init__: chunk ids and subpages (docbook.py) *)

\* An element of a DocBook document: its tag, its id or xml:id attribute
\* (empty when it has none) and its depth below the root.  A document is the
\* sequence of its elements in document order.
DocNode(tag, id, depth) == [tag |-> tag, id |-> id, depth |-> depth]

\* node.tag in DOCBOOK_CHUNKS
IsChunk(node) == node.tag \in {"book", "article", "section"}

\* The parent of element k
Parent(nodes, k) ==
    CHOOSE j \in 1..(k - 1) :
        /\ nodes[j].depth = nodes[k].depth - 1
        /\ \A i \in (j + 1)..(k - 1) : nodes[i].depth >= nodes[k].depth

\* _fixids reaches element k: it descends from the root through chunk
\* elements only
RECURSIVE Visited(_, _)
Visited(nodes, k) == IsChunk(nodes[k]) /\ (k = 1 \/ Visited(nodes, Parent(nodes, k)))

\* str(n)
Digit(n) == <<"0", "1", "2", "3", "4", "5", "6", "7", "8", "9">>[n + 1]

RECURSIVE StrInt(_)
StrInt(n) == IF n < 10 THEN <<Digit(n)>> ELSE StrInt(n \div 10) \o <<Digit(n % 10)>>

\* 'page' + str(self._fixid)
PageN(n) == <<"p", "a", "g", "e">> \o StrInt(n)

\* count(//*[@id = "..." or @xml:id = "..."]) > 0
IdUsed(nodes, id) == \E j \in 1..Len(nodes) : nodes[j].id = id

\* while the id page<_fixid> is used: self._fixid += 1
RECURSIVE NextFixid(_, _)
NextFixid(nodes, fixid) ==
    IF IdUsed(nodes, PageN(fixid)) THEN NextFixid(nodes, fixid + 1) ELSE fixid

\* chunkid = 'page' + str(self._fixid); node.set(..., chunkid)
SetPageId(fx, k, n) ==
    [fx EXCEPT !.nodes[k].id = PageN(n), !.fixid = n, !.fixed = TRUE]

\* The body of _fixids for element k: the root gets 'index', another chunk
\* without id the first page<n> that no element has
FixNode(fx, k) ==
    IF ~Visited(fx.nodes, k) \/ fx.nodes[k].id # <<>> THEN fx
    ELSE IF k = 1 THEN [fx EXCEPT !.nodes[1].id = PidIndex, !.fixed = TRUE]
    ELSE SetPageId(fx, k, NextFixid(fx.nodes, fx.fixid))

\* _fixids(self._tree.getroot()): the elements in document order
RECURSIVE FixIds(_, _)
FixIds(fx, k) == IF k > Len(fx.nodes) THEN fx ELSE FixIds(FixNode(fx, k), k + 1)

\* maxdepth: 2 for a book, 1 otherwise
MaxDepthOf(nodes) == IF nodes[1].tag = "book" THEN 2 ELSE 1

\* _accumulate_pages yields element k: a chunk child of the root, or a
\* chunk child of a yielded element no deeper than maxdepth
RECURSIVE Accumulated(_, _, _)
Accumulated(nodes, k, maxdepth) ==
    /\ k > 1
    /\ IsChunk(nodes[k])
    /\ nodes[k].depth <= maxdepth
    /\ (nodes[k].depth = 1 \/ Accumulated(nodes, Parent(nodes, k), maxdepth))

\* self.subpages, by DocBookSubPage.page_id (empty for None)
SubPages(nodes) ==
    LET ks == SelectSeq([k \in 1..Len(nodes) |-> k],
                        LAMBDA k : Accumulated(nodes, k, MaxDepthOf(nodes)))
    IN  [j \in 1..Len(ks) |-> nodes[ks[j]].id]

\* The DocBookPage once _fixids has run: the staged document, whether it
\* was rewritten, and the subpages
DocBookPageOf(fx) == [nodes |-> fx.nodes, fixed |-> fx.fixed, subpages |-> SubPages(fx.nodes)]

\* DocBookPage.__init__ for a document
DocBookPage(nodes) == DocBookPageOf(FixIds([nodes |-> nodes, fixid |-> 1, fixed |-> FALSE], 1))

\* Documents: a root and up to MaxNodes - 1 elements below it, the explicit
\* ids all different
DocIds == {<<>>, PageN(1), PageN(2), PidIndex}

DocTails ==
    UNION { [1..n -> [tag : {"section", "para"}, id : DocIds, depth : 1..3]] :
            n \in 0..(MaxNodes - 1) }

Documents ==
    { nodes \in { <<DocNode(r[1], r[2], 0)>> \o t :
                  r \in {"book", "article", "set"} \X {<<>>, <<"r">>}, t \in DocTails } :
        /\ \A k \in 2..Len(nodes) : nodes[k].depth <= nodes[k - 1].depth + 1
        /\ \A j, k \in 1..Len(nodes) :
               (j # k /\ nodes[j].id # <<>>) => nodes[j].id # nodes[k].id }

\* The document of a DocBookPage is staged
CallDocBookPage ==
    Called([Machine EXCEPT !.ret = <<DocBookPage(world.doc)>>], "DocBookPage")

\* A DocBook document, staged (and staged again)
InitDoc ==
    /\ world \in [doc : Documents]
    /\ root = 0
    /\ heap = <<>>
    /\ filter = <<>>
    /\ index = TRUE
    /\ cloned = {}
    /\ update = TRUE
    /\ stageDirs = {}
    /\ targetDirs = {}
    /\ toolsFiles = {}
    /\ htmlTransform = FALSE
    /\ effects = <<>>
    /\ history = <<>>
    /\ pc = "idle"
    /\ op = "init"
    /\ exc = "none"
    /\ rootAtWork = -1
    /\ allocs = 0
    /\ scanExc = "never"
    /\ translated = {}
    /\ result = <<>>
    /\ calls = 0

NextDoc == CallDocBookPage

DocSpec == InitDoc /\ [][NextDoc]_vars

\* Sites of every shape, scanned (and scanned again)
NextScan == CallScanSite

ScanSpec == InitScan /\ [][NextScan]_vars

-----------------------------------------------------------------------------
(* Properties of the scanned tree *)

\* The Directory objects reachable from Site.root through subdirs
Reachable == IF root = 0 THEN {} ELSE Range(IterDirectories(heap, root))

PageIds(pages) == [i \in 1..Len(pages) |-> pages[i].page_id]

\* The page ids of the pages the Page plugins create for Directory d, in
\* creation order: the .page files of each of its sources
CreatedIds(d) ==
    Concat([k \in 1..Len(heap[d].sources) |->
              LET fl == ListPageFiles(world, heap[d].sources[k].loc)
              IN  [i \in 1..Len(fl) |-> fl[i].id]])

\* The length of the longest duplicate-free prefix of ids
DupFreePrefixLen(ids) ==
    CHOOSE k \in 0..Len(ids) :
        /\ NoDup(SubSeq(ids, 1, k))
        /\ k < Len(ids) => ~NoDup(SubSeq(ids, 1, k + 1))

\* The path of a Directory minus its last component
ParentPath(path) ==
    LET parts == SplitSlash(Strip1(path))
    IN  Sl \o Concat([i \in 1..(Len(parts) - 1) |-> parts[i] \o Sl])

\* How often Directory d occurs in the subdirs lists of the heap
Occurrences(d) ==
    LET Count(s) == Cardinality({i \in 1..Len(s) : s[i] = d})
        RECURSIVE Sum(_)
        Sum(k) == IF k = 0 THEN 0 ELSE Count(heap[k].subdirs) + Sum(k - 1)
    IN  Sum(Len(heap))

\* C1: once a scan_site call has returned normally, every later scan_site
\* call is a no-op: Site.root is the same object, no Directory is
\* constructed, nothing is cloned or removed, and the call returns normally.
C1_ScanSiteIdempotent ==
    [][(scanExc = "none" /\ op' = "scan_site") =>
          /\ root' = root
          /\ heap' = heap
          /\ allocs' = allocs
          /\ cloned' = cloned
          /\ stageDirs' = stageDirs
          /\ effects' = <<>>
          /\ exc' = "none"]_vars

C1_Witness ==
    /\ scanExc = "none"
    /\ op = "scan_site"
    /\ calls >= 2
    /\ root # 0
    /\ allocs = Len(heap)
    /\ stageDirs # {}

C3_SiteIdInjective ==
    scanExc = "none" =>
        LET ps == IterPages(heap, root)
        IN  \A i, j \in 1..Len(ps) :
                i # j => SiteId(heap, ps[i]) # SiteId(heap, ps[j])

\* C4: after a scan that returned normally, the root has path "/", every
\* reachable Directory has a path that starts and ends with "/", and every
\* child C of a Directory D has D as parent and the path D.path + name + "/"
\* for a non-empty name without "/".
C4_ChildPaths ==
    scanExc = "none" =>
        /\ heap[root].path = Sl
        /\ \A d \in Reachable :
              /\ StartsWith(heap[d].path, Sl)
              /\ EndsWith(heap[d].path, Sl)
              /\ \A i \in 1..Len(heap[d].subdirs) :
                    LET c == heap[heap[d].subdirs[i]]
                        name == SubSeq(c.path, Len(heap[d].path) + 1, Len(c.path) - 1)
                    IN  /\ c.parent = d
                        /\ c.path = heap[d].path \o name \o Sl
                        /\ name # <<>>
                        /\ "/" \notin Range(name)

\* C5: after a scan that returned normally, no two distinct reachable
\* Directory objects have the same path.
C5_PathsUnique ==
    scanExc = "none" =>
        \A d, e \in Reachable : d # e => heap[d].path # heap[e].path

\* C6: after a scan that returned normally, every config section whose name
\* starts and ends with "/" is the path of a reachable Directory, and every
\* reachable Directory other than the root occurs exactly once in a subdirs
\* list, that of its parent, whose path is its own path minus the last
\* component.
C6_ConfigDirsReachable ==
    scanExc = "none" =>
        /\ \A i \in 1..Len(world.config) :
              LET name == world.config[i].name
              IN  (StartsWith(name, Sl) /\ EndsWith(name, Sl)) =>
                      \E d \in Reachable : heap[d].path = name
        /\ \A d \in Reachable \ {root} :
              /\ Occurrences(d) = 1
              /\ heap[d].parent \in Reachable
              /\ d \in Range(heap[heap[d].parent].subdirs)
              /\ heap[heap[d].parent].path = ParentPath(heap[d].path)

\* A config path two levels below a directory that is not on disk: an
\* intermediate placeholder without sources was synthesized for it.
C6_Witness ==
    /\ scanExc = "none"
    /\ HasSection(world, PathBA)
    /\ \E d \in Reachable :
          /\ heap[d].path = PathBA
          /\ heap[d].parent # root
          /\ heap[heap[d].parent].sources = <<>>
          /\ heap[heap[d].parent].path = Sl \o B \o Sl

-----------------------------------------------------------------------------
(* Properties of the build *)

IsPrefix(s, t) == Len(s) <= Len(t) /\ SubSeq(t, 1, Len(s)) = s

\* The steps of a whole build, in order
FullBuild ==
    <<"scan_site", "build_cache", "build_tools", "build_html", "build_media",
      "build_files", "build_feeds", "build_search", "build_css", "build_js">>

\* The steps of a build with a path filter
FilteredBuild == SubSeq(FullBuild, 1, 8)

\* C7: Site.build runs scan, cache, tools, html, media, files, feeds, search
\* in this order, each after the previous one has returned, and then css and
\* js if and only if no filter is set.
C7_BuildOrder ==
    /\ [](/\ IsPrefix(history, FullBuild)
          /\ pc # "idle" => pc = FullBuild[Len(history) + 1])
    /\ [][(pc # "idle" /\ pc' = "idle" /\ exc' = "none") =>
             history' = IF Len(filter) = 0 THEN FullBuild ELSE FilteredBuild]_vars

C7_Witness ==
    /\ pc = "idle"
    /\ op = "build_search"
    /\ exc = "none"
    /\ Len(filter) # 0
    /\ history = FilteredBuild

\* C8: whenever a build step of Site does its own work, Site.root is not None.
C8_BuildStepsGate ==
    (op \in BuildSteps /\ rootAtWork # -1) => rootAtWork # 0

\* C9: on a scanned Site no build step fails, whatever build steps ran
\* before it.
C9_AnyOrder ==
    (scanExc = "none" /\ op \in BuildSteps) => exc = "none"

\* Whether a filter entry names the path or site id x, or a subtree holding it
Named(fs, x) ==
    \E i \in 1..Len(fs) :
        IF EndsWith(fs[i], Sl) THEN StartsWith(x, fs[i]) ELSE x = fs[i]

\* C10: get_filter is True without a filter; with one, a Directory passes
\* when its path starts with an entry ending in "/" or is a prefix of an
\* entry not ending in "/", a Page when its site id starts with an entry
\* ending in "/" or equals an entry not ending in "/"; and with a filter a
\* build step writes pages, extra files and feeds only for the named
\* subtrees and pages.
C10_FilterScope ==
    /\ \A d \in 1..Len(heap) :
          /\ GetFilterDirectory(filter, heap[d].path) =
                (\/ Len(filter) = 0
                 \/ \E i \in 1..Len(filter) :
                       \/ EndsWith(filter[i], Sl) /\ StartsWith(heap[d].path, filter[i])
                       \/ ~EndsWith(filter[i], Sl) /\ StartsWith(filter[i], heap[d].path))
          /\ \A k \in 1..Len(heap[d].pages) :
                GetFilterPage(filter, SiteId(heap, heap[d].pages[k])) =
                    (Len(filter) = 0 \/ Named(filter, SiteId(heap, heap[d].pages[k])))
    /\ Len(filter) # 0 =>
          \A k \in 1..Len(effects) :
              effects[k].e \in {"html", "file", "feed"} => Named(filter, effects[k].at)

-----------------------------------------------------------------------------
(* Directory builds: order and filter *)

\* The build steps that walk the Directory tree
DirSteps == {"build_html", "build_media", "build_files", "build_feeds"}

\* What a Directory does locally in those steps
LocalKinds == {"maketarget", "makestage", "html", "file", "feed", "feed-failed"}

\* The directory part of a site id: up to and including its last slash
RECURSIVE DirOfSiteId(_)
DirOfSiteId(s) ==
    IF Len(s) = 0 \/ s[Len(s)] = "/" THEN s ELSE DirOfSiteId(SubSeq(s, 1, Len(s) - 1))

\* The path of the Directory that performed a local effect
LocalDir(e) == IF e.e = "html" THEN DirOfSiteId(e.at) ELSE e.at

\* The first local action of a step in a directory that passes the filter
FirstLocal(step) ==
    CASE step \in {"build_html", "build_media"} -> "maketarget"
      [] step = "build_files" -> "makestage"
      [] OTHER -> "feed"

\* C11: in build_html, build_media, build_files and build_feeds a Directory
\* acts locally only after the same operation is over for all its subdirs
\* (no local effect of a directory precedes a local effect of a directory
\* below it), a Directory that fails get_filter has no local effect at all,
\* and the recursion still reaches every directory that passes the filter.
C11_PostOrderAndFilter ==
    op \in DirSteps =>
        /\ \A k \in 1..Len(effects) :
               effects[k].e \in LocalKinds =>
                   GetFilterDirectory(filter, LocalDir(effects[k]))
        /\ \A i, j \in 1..Len(effects) :
               (/\ i < j
                /\ effects[i].e \in LocalKinds
                /\ effects[j].e \in LocalKinds)
               => ~(/\ IsPrefix(LocalDir(effects[i]), LocalDir(effects[j]))
                    /\ LocalDir(effects[i]) # LocalDir(effects[j]))
        /\ (exc = "none" /\ op # "build_feeds") =>
               \A d \in Reachable :
                   GetFilterDirectory(filter, heap[d].path) =>
                       \E k \in 1..Len(effects) :
                           /\ effects[k].e = FirstLocal(op)
                           /\ effects[k].at = heap[d].path

\* A filtered build_html has walked a tree three levels deep: the root
\* fails the filter, /a/ and /a/b/ pass it and were built child first.
C11_Witness ==
    /\ op = "build_html"
    /\ exc = "none"
    /\ filter = <<PathA>>
    /\ \E i, j \in 1..Len(effects) :
           /\ i < j
           /\ effects[i] = Effect("maketarget", PathAB)
           /\ effects[j] = Effect("maketarget", PathA)
    /\ \A k \in 1..Len(effects) : effects[k].at # Sl

-----------------------------------------------------------------------------
(* Remote git sources *)

\* The section of /a/ names a repository
GitAtA == HasSection(world, PathA) /\ SectionOf(world, PathA).git

\* The clone directory of the repository of /a/
RepodirOfA == Repodir(GetRepo(world, PathA), GetBranch(world, PathA))

\* /a/ has a git source whose path is in the clone directory
ServedFromClone(h) ==
    \E d \in 1..Len(h) : \E k \in 1..Len(h[d].sources) :
        /\ h[d].sources[k].kind = "git"
        /\ h[d].sources[k].name = PathA
        /\ h[d].sources[k].loc = GitLoc(RepodirOfA)

\* C17: when the clone directory of a remote source exists and updates are
\* off (git_update is 'false', or set_update(False) was called), the scan
\* constructs the source without pulling, returns normally, and the source
\* reads from the existing clone.
C17_NoUpdateWhenDisabled ==
    [][(/\ op' = "scan_site"
        /\ root = 0
        /\ GitAtA
        /\ RepodirOfA \in cloned
        /\ (GetGitUpdate(world, PathA) = StrFalse \/ ~update))
       => (/\ exc' = "none"
           /\ \A k \in 1..Len(effects') : effects'[k].e # "update"
           /\ ServedFromClone(heap'))]_vars

\* C18: when the clone directory exists, updates are on and the pull fails,
\* the scan still returns normally and the source reads from the clone.
C18_UpdateFailureDegrades ==
    [][(/\ op' = "scan_site"
        /\ root = 0
        /\ GitAtA
        /\ RepodirOfA \in cloned
        /\ GetGitUpdate(world, PathA) # StrFalse
        /\ update
        /\ ~world.pullOk)
       => (exc' = "none" /\ ServedFromClone(heap'))]_vars

\* C19: when the clone directory is absent and git clone fails, the
\* constructor of the source does not return: the scan ends with an
\* exception and no git source was added to a Directory.
C19_CloneFailureAborts ==
    [][(/\ op' = "scan_site"
        /\ root = 0
        /\ GitAtA
        /\ RepodirOfA \notin cloned
        /\ ~world.gitOk)
       => (/\ exc' # "none"
           /\ \A d \in 1..Len(heap') : \A k \in 1..Len(heap'[d].sources) :
                  heap'[d].sources[k].kind # "git")]_vars

\* C20: two git sections with different (repository, branch) pairs never
\* name the same clone directory.
C20_RepodirInjective ==
    scanExc # "never" =>
        \A i, j \in 1..Len(world.config) :
            (/\ world.config[i].git
             /\ world.config[j].git
             /\ Repodir(GetRepo(world, world.config[i].name),
                        GetBranch(world, world.config[i].name))
                = Repodir(GetRepo(world, world.config[j].name),
                          GetBranch(world, world.config[j].name)))
            => (/\ GetRepo(world, world.config[i].name) = GetRepo(world, world.config[j].name)
                /\ GetBranch(world, world.config[i].name)
                   = GetBranch(world, world.config[j].name))

-----------------------------------------------------------------------------
(* The cache *)

\* The cache documents written by the last call, in order
CacheWrites == SelectSeq(effects, LAMBDA e : e.e = "cache")

\* The languages of the directories of the site
LangsOfSite == UNION { Range(GetDirectoryLangs(world, heap[d].path)) : d \in Reachable }

\* The pages of the site in iter_pages order, without the DocBook subpages,
\* which are the pages without a cache fragment
PagesWithFragment ==
    SelectSeq(IterPages(heap, root), LAMBDA p : p.cls # "DocBookSubPage")

-----------------------------------------------------------------------------
(* Search domains *)

\* An entry of a domain list that is a domain, not a page mapping
Plain(dom) == [map |-> FALSE, page |-> <<>>, dom |-> dom]

\* The search_domain option of a directory
SearchOption(path) ==
    IF HasSection(world, path) THEN SectionOf(world, path).search ELSE Unset

\* What the claim says the list of directory d in heap h is
DomainsAsSpecified(h, d) ==
    LET opt == SearchOption(h[d].path)
        val == h[d].search_domains.val
    IN  /\ ~opt.set =>
               IF h[d].parent = 0 THEN val = <<Plain(Sl)>>
               ELSE /\ h[h[d].parent].search_domains.set
                    /\ val = <<h[h[d].parent].search_domains.val[1]>>
        /\ opt = Str(StrSelf) => val = <<Plain(h[d].path)>>
        /\ opt = Str(StrNone) => val = <<Plain(StrNone)>>
        /\ opt = Str(SdGlobalPath) => val = <<Plain(Sl), Plain(PathBA)>>

\* C13: the list a Directory keeps as its search domains is, without a
\* search_domain option, the first entry of its parent's list (['/'] at the
\* root); self, global, none and a path resolve to the directory's path,
\* '/', 'none' and the path itself; and a list once kept is never replaced.
C13_SearchDomainsResolved ==
    [][\A d \in 1..Len(heap') :
          heap'[d].search_domains.set =>
              /\ DomainsAsSpecified(heap', d)
              /\ (d <= Len(heap) /\ heap[d].search_domains.set)
                     => heap'[d].search_domains = heap[d].search_domains]_vars

\* get_search_domains() on /a/b/, which sets no search_domain, returned the
\* path of /a/, whose option is self
C13_Witness ==
    /\ op = "get_search_domains"
    /\ exc = "none"
    /\ effects[1].at = PathAB
    /\ ~SearchOption(PathAB).set
    /\ SearchOption(PathA) = Str(StrSelf)
    /\ \E d \in Reachable :
           /\ heap[d].path = PathAB
           /\ heap[d].search_domains = Str(<<Plain(PathA)>>)

-----------------------------------------------------------------------------
(* The search index *)

\* 'none' is in the chain of the page with id pid: as an entry of the
\* directory's list dms, or as the domain of a mapping for pid
NoneInChain(dms, pid) ==
    \E i \in 1..Len(dms) : dms[i].dom = StrNone /\ (~dms[i].map \/ dms[i].page = pid)

\* index_page was called for the page with this site id in the last call
Indexed(siteId) == \E k \in 1..Len(effects) : effects[k].e = "index" /\ effects[k].at = siteId

\* C14: a page with 'none' anywhere in its chain of search domains is not
\* passed to index_page, in any language.
C14_NoneAnywhereExcludes ==
    op = "build_search" =>
        \A d \in Reachable : \A i \in 1..Len(heap[d].pages) :
            (/\ heap[d].search_domains.set
             /\ NoneInChain(heap[d].search_domains.val, heap[d].pages[i].page_id))
            => ~Indexed(SiteId(heap, heap[d].pages[i]))

\* Directory d is configured with search_domain = none, or inherits its
\* search domain (no option, or 'parent') from a directory that is
RECURSIVE NoneInherited(_)
NoneInherited(d) ==
    \/ SearchOption(heap[d].path) = Str(StrNone)
    \/ /\ SearchOption(heap[d].path) \in {Unset, Str(StrParent)}
       /\ heap[d].parent # 0
       /\ NoneInherited(heap[d].parent)

\* C15: after build_search, no page of a directory configured with
\* search_domain = none, and no page of a directory below it that inherits
\* its search domain, was passed to index_page.
C15_NoneDirectoryNotIndexed ==
    op = "build_search" =>
        \A d \in Reachable :
            NoneInherited(d) =>
                \A i \in 1..Len(heap[d].pages) : ~Indexed(SiteId(heap, heap[d].pages[i]))

\* build_search indexed the page of the top directory and none of /a/,
\* which is configured with none, or of /a/b/, which has no option
C15_Witness ==
    /\ op = "build_search"
    /\ exc = "none"
    /\ filter = <<>>
    /\ Indexed(Sl \o PidI)
    /\ SearchOption(PathA) = Str(StrNone)
    /\ ~SearchOption(PathAB).set
    /\ \E d \in Reachable :
           /\ heap[d].path = PathAB
           /\ heap[d].pages # <<>>
           /\ NoneInherited(d)
           /\ heap[d].search_domains = Str(<<Plain(StrNone)>>)

\* The number of index_page calls of the last call for a page and language
IndexCalls(siteId, lang) ==
    Cardinality({ k \in 1..Len(effects) :
                    effects[k].e = "index" /\ effects[k].at = siteId /\ effects[k].lang = lang })

\* The pair (page i of directory d, language lang) is one the claim says
\* index_site indexes
ToIndex(d, i, lang) ==
    /\ index
    /\ world.searchProvider
    /\ Searchable(heap[d].pages[i])
    /\ GetFilterDirectory(filter, heap[d].path)
    /\ GetFilterPage(filter, SiteId(heap, heap[d].pages[i]))
    /\ ~NoneInChain(heap[d].search_domains.val, heap[d].pages[i].page_id)
    /\ lang \in {LangNone} \cup Range(GetDirectoryLangs(world, heap[d].path))

\* C16: a build_search that returns normally has called index_page once
\* for each pair of a searchable page that passes the filter (as does its
\* directory) and is not excluded by 'none', and a language of None and the
\* directory's languages; it has called it for no other pair, and not at
\* all when indexing is off or there is no search provider.
C16_IndexedExactlyOnce ==
    (op = "build_search" /\ exc = "none") =>
        \A d \in Reachable : \A i \in 1..Len(heap[d].pages) :
            \A lang \in {LangNone, "de", "fr"} :
                IndexCalls(SiteId(heap, heap[d].pages[i]), lang)
                    = IF ToIndex(d, i, lang) THEN 1 ELSE 0

-----------------------------------------------------------------------------
(* A scan that fails *)

\* C30: when a scan_site call ends with an exception, Site.root is still
\* None afterwards, and so the next call that scans starts over.
C30_FailedScanLeavesNoRoot ==
    (op = "scan_site" /\ exc # "none") => root = 0

-----------------------------------------------------------------------------
(* Search domains with page mappings *)

\* C27: get_search_domains() on a Directory returns a list, whatever words
\* (domains, keywords, page mappings) the search_domain options are made
\* of, a page mapping as first word included: the call does not raise and
\* the directory keeps a list with a first entry.
C27_SearchDomainsNeverRaise ==
    (/\ op = "get_search_domains"
     /\ \A d \in Reachable : SearchOption(heap[d].path) # Str(<<>>))
    => /\ exc = "none"
       /\ \A d \in Reachable :
              heap[d].path = effects[1].at =>
                  heap[d].search_domains.set /\ Len(heap[d].search_domains.val) >= 1

-----------------------------------------------------------------------------
(* Pages and directories under a filter *)

\* Something was done at this path or site id in the last call
Done(e, at) == \E k \in 1..Len(effects) : effects[k].e = e /\ effects[k].at = at

\* C29: a page that passes the filter is in a directory that passes it,
\* and so a build_html, build_media or build_search that returns normally
\* has built the page, made the target directory of its directory, and
\* indexed it.
C29_PageFilterImpliesDirectory ==
    \A d \in Reachable : \A i \in 1..Len(heap[d].pages) :
        GetFilterPage(filter, SiteId(heap, heap[d].pages[i])) =>
            /\ GetFilterDirectory(filter, heap[d].path)
            /\ (op = "build_html" /\ exc = "none") => Done("html", SiteId(heap, heap[d].pages[i]))
            /\ (op = "build_media" /\ exc = "none") => Done("maketarget", heap[d].path)
            /\ (op = "build_search" /\ exc = "none" /\ index)
                   => Done("index", SiteId(heap, heap[d].pages[i]))

\* Under the filter /a/i, build_html built the page /a/i, whose directory
\* /a/ is no entry of the filter
C29_Witness ==
    /\ op = "build_html"
    /\ exc = "none"
    /\ filter = <<PathA \o PidI>>
    /\ Done("html", PathA \o PidI)
    /\ ~Named(filter, PathA)

-----------------------------------------------------------------------------
(* Translations *)

\* The page of the scanned site with the given site id
PageOf(siteId) == CHOOSE p \in Range(IterPages(heap, root)) : SiteId(heap, p) = siteId

\* The provider's translate_page was called by the last operation
ProviderCalled(effs) == \E k \in 1..Len(effs) : effs[k].e = "provider.translate_page"

\* C26: Site.translate_page returns False without a translation provider;
\* with one, it returns True without calling the provider when the
\* translated staged file of the page already exists, for every page
\* whether or not it passes the filter, and otherwise calls the provider
\* and returns its result.
C26_TranslatePageUsesExistingFile ==
    [][op' = "translate_page" =>
          LET lang == effects'[1].lang
              existed == TranslatedFile(heap, PageOf(effects'[1].at), lang) \in translated
          IN  /\ ~world.translation.present =>
                     result' = <<FALSE>> /\ ~ProviderCalled(effects')
              /\ (world.translation.present /\ existed) =>
                     result' = <<TRUE>> /\ ~ProviderCalled(effects')
              /\ (world.translation.present /\ ~existed) =>
                     /\ ProviderCalled(effects')
                     /\ result' = <<lang \in world.translation.pages>>]_vars

-----------------------------------------------------------------------------
(* Cache fragments *)

\* C28: MallardPage.get_cache_data leaves the parsed tree of the page (and
\* of every other page) as it was, so that a second call and every later
\* reader of the tree see the original document.
C28_CacheDataLeavesTree ==
    [][op' = "get_cache_data" =>
          \A r \in PageRefs :
              heap'[r[1]].pages[r[2]].tree = heap[r[1]].pages[r[2]].tree]_vars

\* The xref attributes of the links of a fragment are those of the links of
\* the document, with the directory's path before each that is set and does
\* not start with '/'
LinksRewritten(flinks, links, path) ==
    /\ Len(flinks) = Len(links)
    /\ \A k \in 1..Len(links) :
           flinks[k].xref = IF links[k].xref.set /\ ~StartsWith(links[k].xref.val, Sl)
                            THEN Str(path \o links[k].xref.val)
                            ELSE links[k].xref

\* The fragment carries the site id of the page, site_id#id for each section
\* with an id, and rewritten links, the document being the staged file
Rewritten(frag, page) ==
    LET path == heap[page.dir].path
        doc  == page.staged
    IN  /\ frag.id = path \o page.page_id
        /\ LinksRewritten(frag.links, doc.links, path)
        /\ Len(frag.sects) = Len(doc.sects)
        /\ \A k \in 1..Len(doc.sects) :
               /\ frag.sects[k].id = IF doc.sects[k].id = <<>> THEN <<>>
                                     ELSE path \o page.page_id \o <<"#">> \o doc.sects[k].id
               /\ LinksRewritten(frag.sects[k].links, doc.sects[k].links, path)

MallardPages == { p \in Range(IterPages(heap, root)) : p.cls = "MallardPage" }

\* C25: the cache fragment of a Mallard page has the site id of the page as
\* its id and site_id#id for its sections, every link whose xref does not
\* start with '/' has directory.path before its xref and every other link
\* is as in the document; each cache document that build_cache writes holds
\* that fragment under the site id.
C25_FragmentsRewritten ==
    /\ (op = "get_cache_data" /\ exc = "none" /\ PageOf(effects[1].at).cls = "MallardPage")
           => /\ Len(result) = 1
              /\ Rewritten(result[1], PageOf(effects[1].at))
    /\ (op = "build_cache" /\ exc = "none")
           => \A c \in 1..Len(CacheWrites) : \A p \in MallardPages :
                  \E j \in 1..Len(CacheWrites[c].data) :
                      /\ CacheWrites[c].data[j].id = SiteId(heap, p)
                      /\ CacheWrites[c].doc[j] = SiteId(heap, p)
                      /\ Rewritten(CacheWrites[c].data[j], p)

C25_Witness ==
    /\ op = "build_cache" /\ exc = "none" /\ Len(CacheWrites) = 2
    /\ \E j \in 1..Len(CacheWrites[2].data) :
           LET frag == CacheWrites[2].data[j]
           IN  /\ frag.id = PathA \o PidI
               /\ frag.lang = "de"
               /\ Len(frag.links) = 3
               /\ frag.links[1].xref = Str(PathA \o PidX)
               /\ frag.links[2].xref = Str(Sl \o PidI)
               /\ frag.sects[1].id = PathA \o PidI \o <<"#">> \o PidSect

-----------------------------------------------------------------------------
(* Media *)

\* The last operation did e for the file or page `at` in language lang
DoneIn(e, at, lang) ==
    \E k \in 1..Len(effects) :
        effects[k].e = e /\ effects[k].at = at /\ effects[k].lang = lang

\* build_media tries to copy the file for this language: always for the
\* untranslated file, and for a language of the directory when
\* translate_media returns a true value and the name is relative
CopyTried(path, file, lang) ==
    \/ lang = LangNone
    \/ /\ world.translation.present
       /\ \E k \in 1..Len(GetDirectoryLangs(world, path)) : GetDirectoryLangs(world, path)[k] = lang
       /\ lang \in world.translation.media
       /\ ~StartsWith(file.name, Sl)

\* C22: a media file that cannot be copied is logged as a warning and
\* nothing more: build_media returns normally once the site is scanned, and
\* every other copy (the other languages of the file, the other files, the
\* other directories, parents included) is made.
C22_MediaCopyFailureNotFatal ==
    (op = "build_media" /\ rootAtWork # -1) =>
        /\ exc = "none"
        /\ \A d \in Reachable :
               GetFilterDirectory(filter, heap[d].path) =>
                   /\ Done("maketarget", heap[d].path)
                   /\ \A i \in 1..Len(heap[d].pages) :
                          GetFilterPage(filter, SiteId(heap, heap[d].pages[i])) =>
                              \A k \in 1..Len(heap[d].pages[i].media) :
                                  \A lang \in {LangNone, "de"} :
                                      LET file == heap[d].pages[i].media[k]
                                      IN  CopyTried(heap[d].path, file, lang) =>
                                              DoneIn(IF lang \in file.copies THEN "copy" ELSE "warn",
                                                     heap[d].path \o file.name, lang)

C22_Witness ==
    /\ op = "build_media" /\ exc = "none"
    /\ \E a, b, c, d \in 1..Len(effects) :
           /\ a < b /\ b < c /\ c < d
           /\ effects[a].e = "warn" /\ effects[a].at = PathA \o <<"m">> /\ effects[a].lang = LangNone
           /\ effects[b].e = "copy" /\ effects[b].at = PathA \o <<"m">> /\ effects[b].lang = "de"
           /\ effects[c].e = "copy" /\ effects[c].at = PathA \o <<"n">>
           /\ effects[d].e = "copy" /\ effects[d].at = Sl \o <<"r">>

-----------------------------------------------------------------------------
(* Pages that cannot be parsed *)

\* C23: a page file that cannot be parsed does not abort the scan or the
\* build steps that scan: the operation returns normally and a page exists
\* for every well-formed page file of the directory.
C23_PageErrorIsConfined ==
    (op \in {"scan_site", "build_cache", "build_media"}) =>
        /\ exc = "none"
        /\ root # 0
        /\ \A k \in 1..Len(world.subFiles) :
               world.subFiles[k].wellformed =>
                   \E p \in Range(IterPages(heap, root)) :
                       SiteId(heap, p) = PathA \o world.subFiles[k].id

-----------------------------------------------------------------------------
(* DocBook chunk ids *)

\* The chunk elements of the document
Chunks(nodes) == { k \in 1..Len(nodes) : IsChunk(nodes[k]) }

\* The numbers n of the ids page<n> that elements before k have in the
\* staged document, or that any element has in the source
UsedBefore(src, staged, k) ==
    { n \in 1..MaxNodes : \/ IdUsed(src, PageN(n))
                          \/ \E j \in 1..(k - 1) : staged[j].id = PageN(n) }

\* C24: once a DocBook document is staged, every chunk element below the
\* root that had no id has the id page<n> with the first n that no explicit
\* or earlier synthesized id uses, every subpage has a page_id, no two
\* elements share an id, and staging again yields the same ids.
C24_ChunkIdsSynthesized ==
    (op = "DocBookPage") =>
        LET src    == world.doc
            staged == result[1].nodes
        IN  /\ \A k \in Chunks(src) \ {1} :
                   src[k].id = <<>> =>
                       \E n \in 1..MaxNodes :
                           /\ staged[k].id = PageN(n)
                           /\ n \notin UsedBefore(src, staged, k)
                           /\ \A i \in 1..(n - 1) : i \in UsedBefore(src, staged, k)
            /\ \A j \in 1..Len(result[1].subpages) : result[1].subpages[j] # <<>>
            /\ \A j, k \in 1..Len(staged) :
                   (j # k /\ staged[j].id # <<>>) => staged[j].id # staged[k].id
            /\ result[1] = DocBookPage(src)

-----------------------------------------------------------------------------
(* Missing translations *)

\* The last operation asked for a translation of the page and
\* site.translate_page returned a false value
NotTranslated(lang) ==
    \/ ~world.translation.present
    \/ ProviderCalled(effects) /\ lang \notin world.translation.pages

====
